---- MODULE Spec2Model ----
(***************************************************************************)
(* xtalk: MIDI cross-talk cancellation filter (3hhh/xtalk).                *)
(*                                                                         *)
(* A message is the 3-byte list [status, data1, data2] of the source; here *)
(* it is the tuple <<status, data1, data2>>, so msg[0], msg[1], msg[2] of  *)
(* the source are msg[1], msg[2], msg[3] below.                            *)
(***************************************************************************)
EXTENDS Integers, Sequences, FiniteSets, TLC

\* ------------------------------------------------------------------------
\* Bounds of the model
\* ------------------------------------------------------------------------
\* number of MIDI messages the transport delivers in one run
MaxArrivals == 3

\* ------------------------------------------------------------------------
\* plugins/__init__.py: message predicates
\* ------------------------------------------------------------------------
MIDI_NOTEON == 144
MIDI_NOTEOFF == 128
MIDI_AFTERTOUCH == 160

\* msg[0] & 0xf0
kind(msg) == (msg[1] \div 16) * 16

is_note_on_strict(msg) == kind(msg) = MIDI_NOTEON
is_note_on(msg) == is_note_on_strict(msg) /\ msg[3] > 0
is_note_off_strict(msg) == kind(msg) = MIDI_NOTEOFF
is_note_off(msg) == is_note_off_strict(msg) \/ (is_note_on_strict(msg) /\ msg[3] = 0)
\* mutant: aftertouch messages are not recognised
is_note_aftertouch_never(msg) == FALSE
is_note_aftertouch(msg) == kind(msg) = MIDI_AFTERTOUCH
\* mutant: no message counts as a note modification
is_note_mod_never(msg) == FALSE
is_note_mod(msg) == is_note_off(msg) \/ is_note_aftertouch(msg)

\* ------------------------------------------------------------------------
\* The messages the transport may deliver, and the bytes they index
\* ------------------------------------------------------------------------
Msgs ==
  { <<144, 38, 100>>,   \* loud snare hit
    <<144, 40, 20>>,    \* weak hit of note 40
    <<144, 40, 56>>,    \* medium hit of note 40
    <<144, 127, 10>>,   \* weak hit of the highest MIDI note
    <<160, 40, 127>>,   \* polyphonic aftertouch on note 40
    <<128, 38, 0>>,     \* note off
    <<176, 7, 64>> }    \* control change: no note message

\* the buckets of a MessageHistory that the messages above can reach
\* (the source allocates one bucket per value in range(256))
Data1 == { m[2] : m \in Msgs }

\* range(n) of the source, restricted to the bytes of the model
range(n) == { i \in Data1 : i < n }

\* ------------------------------------------------------------------------
\* xtalk.py: class MessageHistory (idx = 1, i.e. data1)
\* A history is a function bucket -> sequence of messages.
\* ------------------------------------------------------------------------
MessageHistory == [i \in Data1 |-> <<>>]

\* mutant: the insertion is lost
add_lost(h, msg) == h

\* mutant: a bucket keeps one message only
add_once(h, msg) ==
  IF h[msg[2]] = <<>> THEN [h EXCEPT ![msg[2]] = <<msg>>] ELSE h

\* mutant: the message is stored twice
add_twice(h, msg) == [h EXCEPT ![msg[2]] = Append(Append(@, msg), msg)]

add(h, msg) == [h EXCEPT ![msg[2]] = Append(@, msg)]

\* mutant: every element equal to msg is deleted
list_remove_every(l, msg) == SelectSeq(l, LAMBDA m : m /= msg)

\* list.remove: delete the first element equal to msg, ValueError is passed
RECURSIVE list_remove(_, _)
list_remove(l, msg) ==
  IF l = <<>> THEN <<>>
  ELSE IF Head(l) = msg THEN Tail(l)
  ELSE <<Head(l)>> \o list_remove(Tail(l), msg)

\* mutant: nothing is removed
remove_kept(h, msg) == h

remove(h, msg) == [h EXCEPT ![msg[2]] = list_remove(@, msg)]

\* list.pop(): remove and return the last element, IndexError gives None;
\* ret is the sequence of at most one returned message
pop_similar(h, msg) ==
  LET l == h[msg[2]]
  IN IF l = <<>> THEN [history |-> h, ret |-> <<>>]
     ELSE [history |-> [h EXCEPT ![msg[2]] = SubSeq(l, 1, Len(l) - 1)],
           ret |-> <<l[Len(l)]>>]

has_similar(h, msg) == Len(h[msg[2]]) > 0

\* mutant: the messages of the bucket without the most recent one
get_similar_others(h, msg) == SubSeq(h[msg[2]], 1, Len(h[msg[2]]) - 1)

get_similar(h, msg) == h[msg[2]]

\* mutant: the messages of every bucket are yielded
get_all_every(h, values) ==
  UNION { { h[val][k] : k \in 1..Len(h[val]) } : val \in DOMAIN h }

\* the messages yielded for the given bucket values; "if not values: return"
\* makes None and the empty set yield nothing. The caller only reads the
\* velocities, so the yielded messages are kept as a set.
get_all(h, values) ==
  UNION { { h[val][k] : k \in 1..Len(h[val]) } : val \in values }

\* ------------------------------------------------------------------------
\* xtalk.py: class FilterPolicy
\* A rule of a policy file is a record with the JSON keys; threshold = -1 and
\* minimum = -1 stand for a missing or invalid number (as in the docstring's
\* default policy), cause = {} for "cause": [].
\* A loaded rule keeps threshold as the integer percentage p; the source
\* keeps the double p/100. cause = {} stands for cause = None. Every rule
\* of the model has the "cause" key (set(None) raises TypeError without it).
\* ------------------------------------------------------------------------
no_policies == [note \in Data1 |-> <<>>]

add_policy(policies, policy, args) ==
  LET notes == IF policy.notes = {} THEN range(127) ELSE policy.notes
      threshold == IF policy.threshold < 0 \/ policy.threshold > 100
                   THEN args.threshold ELSE policy.threshold
      minimum == IF policy.minimum < 0 \/ policy.minimum > 127
                 THEN args.minimum ELSE policy.minimum
      cause == IF policy.cause /= {} THEN policy.cause
               ELSE IF threshold /= 0 THEN range(127) ELSE {}
      loaded == [cause |-> cause, threshold |-> threshold, minimum |-> minimum,
                 check_disable |-> policy.check_disable,
                 multi_disable |-> policy.multi_disable,
                 only_self |-> policy.only_self]
  IN [note \in Data1 |->
        IF note \in notes THEN Append(policies[note], loaded) ELSE policies[note]]

RECURSIVE add_policies(_, _, _)
add_policies(policies, file, args) ==
  IF file = <<>> THEN policies
  ELSE add_policies(add_policy(policies, Head(file), args), Tail(file), args)

\* the rule the constructor appends: threshold 0 after user rules, the
\* command-line threshold (-1) when nothing was loaded
cli_policy(threshold) ==
  [notes |-> {}, cause |-> {}, threshold |-> threshold, minimum |-> -1,
   check_disable |-> FALSE, multi_disable |-> TRUE, only_self |-> FALSE]

\* mutant: the appended rule always carries the command-line threshold
FilterPolicy_cli_threshold(args) ==
  add_policy(add_policies(no_policies, args.policy, args), cli_policy(-1), args)

FilterPolicy(args) ==
  LET loaded == add_policies(no_policies, args.policy, args)
  IN IF \E note \in Data1 : loaded[note] /= <<>>
     THEN add_policy(loaded, cli_policy(0), args)
     ELSE add_policy(loaded, cli_policy(-1), args)

\* (percentage p, max_velocity) for which the double max_velocity * (p/100)
\* is larger than the exact product, an integer in all these cases
FloatRoundsUp ==
  { <<7, 100>>, <<14, 50>>, <<14, 100>>, <<28, 25>>, <<28, 50>>, <<28, 75>>,
    <<28, 100>>, <<55, 100>>, <<56, 25>>, <<56, 50>>, <<56, 75>>, <<56, 100>>,
    <<68, 75>> }

\* s[2] >= acceptable_velocity, with acceptable_velocity = max_velocity * p/100
reaches(velocity, max_velocity, threshold) ==
  IF <<threshold, max_velocity>> \in FloatRoundsUp
  THEN velocity * 100 > max_velocity * threshold
  ELSE velocity * 100 >= max_velocity * threshold

\* mutant: max_velocity is never raised
max_velocity_unset(cross_msgs) == 0

\* the loop "for c in cross_msgs", starting from max_velocity = 0
max_velocity(cross_msgs) ==
  IF cross_msgs = {} THEN 0
  ELSE CHOOSE v \in { c[3] : c \in cross_msgs } :
         \A c \in cross_msgs : c[3] <= v

\* mutant: disable events are never consumed
disable_check_keep(policy, d, msg) ==
  [disabled |-> has_similar(d, msg), DISABLED |-> d]

\* mutant: disable events are always consumed
disable_check_pop(policy, d, msg) ==
  [disabled |-> pop_similar(d, msg).ret /= <<>>,
   DISABLED |-> pop_similar(d, msg).history]

\* "if policy.get("multi_disable")": look at, or consume, a disable event of
\* the note; disabled is the truth value of what was found
disable_check(policy, d, msg) ==
  IF policy.multi_disable
  THEN [disabled |-> has_similar(d, msg), DISABLED |-> d]
  ELSE [disabled |-> pop_similar(d, msg).ret /= <<>>,
        DISABLED |-> pop_similar(d, msg).history]

\* mutant: only_self is ignored
similar_msgs_siblings(policy, msg, h) == get_similar(h, msg)

\* the messages whose velocity may vouch for msg
similar_msgs(policy, msg, h) ==
  IF policy.only_self THEN <<msg>> ELSE get_similar(h, msg)

\* ret of the source: some similar message has an acceptable velocity.
\* "if not cross_msgs" tests a generator object, which is never false, so
\* the "continue" before this check is dead and the check always runs.
acceptable(policy, msg, h) ==
  LET cross_msgs == get_all(h, policy.cause)
      similar == similar_msgs(policy, msg, h)
  IN \E k \in 1..Len(similar) :
       reaches(similar[k][3], max_velocity(cross_msgs), policy.threshold)

\* "for policy in policies" from rule i of the note's list on, given the
\* DISABLED history d the earlier rules left
RECURSIVE blocks_from(_, _, _, _, _)
blocks_from(policies, i, msg, h, d) ==
  IF i > Len(policies)
  THEN [policy |-> 0, evaluated |-> Len(policies), DISABLED |-> d]
  ELSE
    LET policy == policies[i]
        c == disable_check(policy, d, msg)
        blocked == [policy |-> i, evaluated |-> i, DISABLED |-> c.DISABLED]
    IN IF msg[3] < policy.minimum THEN blocked
       ELSE IF policy.check_disable /\ c.disabled THEN blocked
       ELSE IF ~acceptable(policy, msg, h) THEN blocked
       ELSE blocks_from(policies, i + 1, msg, h, c.DISABLED)

\* mutant: the loop goes on after a rule blocked and the last blocking rule
\* is returned
RECURSIVE blocks_on(_, _, _, _, _, _)
blocks_on(policies, i, msg, h, d, found) ==
  IF i > Len(policies)
  THEN [policy |-> found, evaluated |-> Len(policies), DISABLED |-> d]
  ELSE
    LET policy == policies[i]
        c == disable_check(policy, d, msg)
        hit == \/ msg[3] < policy.minimum
               \/ policy.check_disable /\ c.disabled
               \/ ~acceptable(policy, msg, h)
    IN blocks_on(policies, i + 1, msg, h, c.DISABLED, IF hit THEN i ELSE found)

blocks_last(table, msg, h, d) == blocks_on(table[msg[2]], 1, msg, h, d, 0)

\* FilterPolicy.blocks(msg) on the histories h = HISTORY and d = DISABLED:
\* policy is the position of the blocking rule in the note's list (0 for
\* None), evaluated the number of rules whose body ran, DISABLED the history
\* of disable events it leaves.
blocks(table, msg, h, d) == blocks_from(table[msg[2]], 1, msg, h, d)

\* ------------------------------------------------------------------------
\* Plugins: XtalkPlugin.process(msg) is an async generator that yields the
\* messages for the next plugin and may raise. The plugins below are the
\* ways a plugin written against that interface can answer one message.
\* ------------------------------------------------------------------------
\* plugins/amplify.py with the configuration {"40": {"multiply": 300}}:
\* the bytes of msg when process yields it. The new velocity is written to
\* msg[2] of the message object process was handed, and that object is
\* yielded. 300/100 is the double 3.0, so velocity * mul is exact.
AMPLIFY == [note \in {40} |-> [multiply |-> 300, add |-> 0]]

amplify_process(msg) ==
  IF is_note_on(msg) /\ msg[2] \in DOMAIN AMPLIFY
  THEN LET nvelo == (msg[3] * AMPLIFY[msg[2]].multiply) \div 100 + AMPLIFY[msg[2]].add
       IN << msg[1], msg[2], IF nvelo < 0 THEN 0 ELSE IF nvelo > 127 THEN 127 ELSE nvelo >>
  ELSE msg

\* yields: the messages yielded before the generator ends or raises
\* raises: "" (ends normally), "XtalkPluginException",
\*         "XtalkPluginAbortException" or "Exception" (any other exception)
\* Every plugin below yields the message object it was handed, or nothing;
\* "amplify" is the one that writes to it.
process(plugin, msg) ==
  CASE plugin = "pass" -> [yields |-> <<msg>>, raises |-> ""]
    [] plugin = "amplify" -> [yields |-> << amplify_process(msg) >>, raises |-> ""]
    [] plugin = "twice" -> [yields |-> <<msg, msg>>, raises |-> ""]
    [] plugin = "notes_only" ->
         [yields |-> IF is_note_on(msg) \/ is_note_mod(msg) THEN <<msg>> ELSE <<>>,
          raises |-> ""]
    [] plugin = "faulty" ->
         IF is_note_on(msg) /\ msg[2] = 40
         THEN [yields |-> <<>>, raises |-> "XtalkPluginException"]
         ELSE [yields |-> <<msg>>, raises |-> ""]
    [] plugin = "abort" ->
         IF is_note_off(msg)
         THEN [yields |-> <<>>, raises |-> "XtalkPluginAbortException"]
         ELSE [yields |-> <<msg>>, raises |-> ""]
    [] plugin = "broken" ->
         IF is_note_aftertouch(msg)
         THEN [yields |-> <<>>, raises |-> "Exception"]
         ELSE [yields |-> <<msg>>, raises |-> ""]

\* "for msg in pmsgs: async for m in plugin.process(msg): omsgs.append(m)":
\* the loop ends at the first message for which process raises
RECURSIVE run_plugin(_, _, _)
run_plugin(plugin, pmsgs, omsgs) ==
  IF pmsgs = <<>> THEN [omsgs |-> omsgs, raises |-> "", at |-> <<>>]
  ELSE LET r == process(plugin, Head(pmsgs))
       IN IF r.raises /= ""
          THEN [omsgs |-> omsgs \o r.yields, raises |-> r.raises, at |-> <<Head(pmsgs)>>]
          ELSE run_plugin(plugin, Tail(pmsgs), omsgs \o r.yields)

\* mutant: an abort is logged like any other plugin exception
RECURSIVE run_plugins_abort_logged(_, _, _, _)
run_plugins_abort_logged(plugins, i, pmsgs, trace) ==
  IF i > Len(plugins) THEN [pmsgs |-> pmsgs, raises |-> "", trace |-> trace]
  ELSE
    LET r == run_plugin(plugins[i], pmsgs, <<>>)
        t == Append(trace, [plugin |-> i, input |-> pmsgs, raises |-> r.raises, at |-> r.at])
    IN IF r.raises \in {"XtalkPluginAbortException", "XtalkPluginException"}
       THEN run_plugins_abort_logged(plugins, i + 1, pmsgs, t)
       ELSE IF r.raises = "Exception"
       THEN [pmsgs |-> <<>>, raises |-> "Exception", trace |-> t]
       ELSE run_plugins_abort_logged(plugins, i + 1, r.omsgs, t)

\* "for plugin in PLUGINS" of write_out from plugin i on, with input pmsgs.
\* trace keeps, per plugin that ran, its input, what it raised and for which
\* message; logged counts the exceptions that were logged.
RECURSIVE run_plugins(_, _, _, _)
run_plugins(plugins, i, pmsgs, trace) ==
  IF i > Len(plugins) THEN [pmsgs |-> pmsgs, raises |-> "", trace |-> trace]
  ELSE
    LET r == run_plugin(plugins[i], pmsgs, <<>>)
        t == Append(trace, [plugin |-> i, input |-> pmsgs, raises |-> r.raises, at |-> r.at])
    IN IF r.raises = "XtalkPluginAbortException"
       THEN [pmsgs |-> <<>>, raises |-> "PluginAbortException", trace |-> t]
       ELSE IF r.raises = "XtalkPluginException"
       THEN run_plugins(plugins, i + 1, pmsgs, t)
       ELSE IF r.raises = "Exception"
       THEN [pmsgs |-> <<>>, raises |-> "Exception", trace |-> t]
       ELSE run_plugins(plugins, i + 1, r.omsgs, t)

\* mutant: the batch is handed to the plugins as it is
deepcopy_same(msgs) == [k \in 1..Len(msgs) |-> TRUE]

\* copy.deepcopy(msgs): a list of new message objects with the bytes of
\* msgs; element k tells whether element k of the copy is the object
\* msgs[k]
deepcopy(msgs) == [k \in 1..Len(msgs) |-> FALSE]

\* the bytes a message object holds after the chain from plugin i on was
\* handed it with the bytes msg: a plugin that yields it hands it to the
\* next plugin. (The chains with a plugin that writes have no plugin that
\* raises; without a plugin that writes the bytes stay as they are.)
RECURSIVE in_place(_, _, _)
in_place(plugins, i, msg) ==
  IF i > Len(plugins) THEN msg
  ELSE LET r == process(plugins[i], msg)
       IN IF r.yields = <<>> THEN msg
          ELSE in_place(plugins, i + 1, r.yields[1])

\* the history h after the message object of the arrival being handled,
\* stored with the bytes msg, has come to hold the bytes held: the buckets
\* keep the objects in arrival order, so the object stands before those of
\* the queued arrivals of its bucket. The bucket is the one of the bytes
\* at the time of add.
rewritten(h, msg, held, queued) ==
  LET pos == Len(h[msg[2]]) - queued
  IN IF held = msg \/ pos < 1 THEN h
     ELSE [h EXCEPT ![msg[2]][pos] = held]

\* ------------------------------------------------------------------------
\* State
\* ------------------------------------------------------------------------
VARIABLES
  ARGS,      \* parsed command line; ARGS.policy is the content of the policy file
  POLICY,    \* FilterPolicy.policies: note -> list of loaded rules
  PLUGINS,   \* the plugin chain
  HISTORY,   \* recently seen note-on messages per note
  DISABLED,  \* recently seen disable messages per note
  QUEUE,     \* asyncio.Queue of (msg, delta)
  cache,     \* write_out: messages withheld until the next note-on
  timers,    \* pending call_later callbacks, in the order they were scheduled
  midiout,   \* the messages written by midiout.send_message
  pc,        \* write_out: "get" (at QUEUE.get), "sleep" (in asyncio.sleep),
             \* "aborted" (PluginAbortException left run), "crashed"
  cur,       \* write_out: the (msg, delta) taken from the queue
  wake,      \* write_out: the time the sleep ends
  now,       \* the clock of the event loop, in ms
  arrivals,  \* every (msg, arrival time) delivered so far
  logged,   \* number of plugin exceptions logged
  evald,     \* what the last step of write_out did (empty after other steps)
  plugin,    \* the plugin instance of the runs of one plugin: its attributes
  tasks,     \* the asyncio tasks that plugin has started
  sent,      \* (msg, time) the plugin sent itself: send() or its own port
  res        \* what the calls of the plugin's process did

vars == <<ARGS, POLICY, PLUGINS, HISTORY, DISABLED, QUEUE, cache, timers,
          midiout, pc, cur, wake, now, arrivals, logged, evald,
          plugin, tasks, sent, res>>

\* the state of the plugin under study; the pipeline above it has the
\* plugins of process() and leaves this state alone
plugin_vars == <<plugin, tasks, sent, res>>

\* no plugin instance
no_plugin == [name |-> ""]

\* no call of process yet
no_res == [calls |-> 0, seen |-> <<>>]

NoEval ==
  [msg |-> <<>>, called |-> FALSE, HISTORY |-> MessageHistory,
   DISABLED |-> MessageHistory, bpolicy |-> [policy |-> 0, evaluated |-> 0, DISABLED |-> MessageHistory],
   msgs |-> <<>>, pmsgs |-> <<>>, trace |-> <<>>, raises |-> ""]

\* mutant: the sleep is not capped by the delay
min_first(a, b) == a

\* mutant: the sleep is always the delay
min_last(a, b) == b

min(a, b) == IF a < b THEN a ELSE b

\* mutant: dtypes is ignored
is_note_disable_any(msg) == is_note_mod(msg)

is_note_disable(msg) ==
  IF ARGS.dtypes = "none" THEN FALSE
  ELSE IF ARGS.dtypes = "note_off" THEN is_note_off(msg)
  ELSE IF ARGS.dtypes = "aftertouch" THEN is_note_aftertouch(msg)
  ELSE is_note_mod(msg)

running == pc \in {"get", "sleep"}

\* ------------------------------------------------------------------------
\* Ingress: read_callback posts read_in(tup); the put on the unbounded queue
\* and the insertion run without a suspension in between
\* ------------------------------------------------------------------------
read_in(msg) ==
  /\ running
  /\ Len(arrivals) < MaxArrivals
  /\ LET delta == IF arrivals = <<>> THEN 0 ELSE now - arrivals[Len(arrivals)][2]
     IN QUEUE' = Append(QUEUE, <<msg, delta>>)
  /\ IF is_note_on(msg)
     THEN HISTORY' = add(HISTORY, msg) /\ UNCHANGED DISABLED
     ELSE IF is_note_disable(msg)
     THEN DISABLED' = add(DISABLED, msg) /\ UNCHANGED HISTORY
     ELSE UNCHANGED <<HISTORY, DISABLED>>
  /\ arrivals' = Append(arrivals, <<msg, now>>)
  /\ evald' = NoEval
  /\ UNCHANGED <<ARGS, POLICY, PLUGINS, cache, timers, midiout, pc, cur, wake, now, logged>>
  /\ UNCHANGED plugin_vars

\* ------------------------------------------------------------------------
\* Cleanup callbacks
\* ------------------------------------------------------------------------
cleanup_note_on ==
  /\ running
  /\ timers /= <<>>
  /\ Head(timers).func = "cleanup_note_on"
  /\ HISTORY' = remove(HISTORY, Head(timers).msg)
  /\ timers' = Tail(timers)
  /\ evald' = NoEval
  /\ UNCHANGED <<ARGS, POLICY, PLUGINS, DISABLED, QUEUE, cache, midiout, pc, cur, wake, now, arrivals, logged>>
  /\ UNCHANGED plugin_vars

cleanup_disabled ==
  /\ running
  /\ timers /= <<>>
  /\ Head(timers).func = "cleanup_disabled"
  /\ DISABLED' = remove(DISABLED, Head(timers).msg)
  /\ timers' = Tail(timers)
  /\ evald' = NoEval
  /\ UNCHANGED <<ARGS, POLICY, PLUGINS, HISTORY, QUEUE, cache, midiout, pc, cur, wake, now, arrivals, logged>>
  /\ UNCHANGED plugin_vars

\* ------------------------------------------------------------------------
\* Dispatcher: write_out
\* ------------------------------------------------------------------------
\* msg, delta = await QUEUE.get(); the task then sleeps min(delta, delay)
write_out_get ==
  /\ pc = "get"
  /\ QUEUE /= <<>>
  /\ cur' = Head(QUEUE)
  /\ QUEUE' = Tail(QUEUE)
  /\ wake' = now + min(Head(QUEUE)[2], ARGS.delay)
  /\ pc' = "sleep"
  /\ evald' = NoEval
  /\ UNCHANGED <<ARGS, POLICY, PLUGINS, HISTORY, DISABLED, cache, timers, midiout, now, arrivals, logged>>
  /\ UNCHANGED plugin_vars

\* mutant: a suppressed note-on is sent all the same
decide_passed(msgs, msg, send) == Append(msgs, msg)

\* "#decide": the message joins msgs, and msgs is emptied when the policy
\* suppressed the note-on
decide(msgs, msg, send) == IF send THEN Append(msgs, msg) ELSE <<>>

\* the rest of the loop body, from the end of the sleep to the next get.
\* The message object msg is also the one stored in HISTORY or DISABLED and
\* the argument of the scheduled cleanup; held is what it holds when the
\* plugins have run, which differs from msg only if a plugin was handed
\* the object itself and wrote to it.
write_out_handle ==
  /\ pc = "sleep"
  /\ LET msg == cur[1]
         disable == is_note_disable(msg)
         note_on == ~disable /\ is_note_on(msg)
         cached == ~disable /\ ~note_on /\ ARGS.before /\ ~is_note_mod(msg)
         bpolicy == IF note_on THEN blocks(POLICY, msg, HISTORY, DISABLED)
                    ELSE [policy |-> 0, evaluated |-> 0, DISABLED |-> DISABLED]
         send == bpolicy.policy = 0
         msgs == decide(IF note_on THEN cache ELSE <<>>, msg, send)
         same == IF PLUGINS /= <<>> THEN deepcopy(msgs)
                 ELSE [k \in 1..Len(msgs) |-> TRUE]
         held == IF msgs /= <<>> /\ same[Len(msgs)] THEN in_place(PLUGINS, 1, msg)
                 ELSE msg
         queued == Cardinality({ k \in 1..Len(QUEUE) :
                                   /\ QUEUE[k][1][2] = msg[2]
                                   /\ IF note_on THEN is_note_on(QUEUE[k][1])
                                      ELSE ~is_note_on(QUEUE[k][1])
                                             /\ is_note_disable(QUEUE[k][1]) })
         r == run_plugins(PLUGINS, 1, msgs, <<>>)
     IN IF cached
        THEN /\ cache' = Append(cache, msg)
             /\ pc' = "get"
             /\ evald' = [NoEval EXCEPT !.msg = msg]
             /\ UNCHANGED <<HISTORY, DISABLED, timers, midiout, logged>>
        ELSE /\ timers' = IF disable
                          THEN Append(timers, [func |-> "cleanup_disabled", msg |-> held, when |-> now + ARGS.history])
                          ELSE IF note_on
                          THEN Append(timers, [func |-> "cleanup_note_on", msg |-> held, when |-> now + ARGS.history])
                          ELSE timers
             /\ HISTORY' = IF note_on THEN rewritten(HISTORY, msg, held, queued) ELSE HISTORY
             /\ DISABLED' = IF disable THEN rewritten(bpolicy.DISABLED, msg, held, queued)
                            ELSE bpolicy.DISABLED
             /\ cache' = IF note_on THEN <<>> ELSE cache
             /\ logged' = logged + Cardinality({k \in 1..Len(r.trace) : r.trace[k].raises = "XtalkPluginException"})
             /\ midiout' = IF r.raises = "" THEN midiout \o r.pmsgs ELSE midiout
             /\ pc' = IF r.raises = "" THEN "get"
                      ELSE IF r.raises = "PluginAbortException" THEN "aborted"
                      ELSE "crashed"
             /\ evald' = [msg |-> msg, called |-> note_on, HISTORY |-> HISTORY,
                          DISABLED |-> DISABLED, bpolicy |-> bpolicy, msgs |-> msgs,
                          pmsgs |-> r.pmsgs, trace |-> r.trace, raises |-> r.raises]
  /\ UNCHANGED <<ARGS, POLICY, PLUGINS, QUEUE, cur, wake, now, arrivals>>
  /\ UNCHANGED plugin_vars

\* ------------------------------------------------------------------------
\* Command lines and policy files of the model
\* ------------------------------------------------------------------------
\* parse_args defaults (delay and history in ms)
defaults ==
  [threshold |-> 30, minimum |-> 0, delay |-> 5, history |-> 150,
   before |-> FALSE, dtypes |-> "aftertouch", policy |-> <<>>, plugins |-> <<>>]

rule(notes, cause, threshold, minimum, check_disable, multi_disable, only_self) ==
  [notes |-> notes, cause |-> cause, threshold |-> threshold, minimum |-> minimum,
   check_disable |-> check_disable, multi_disable |-> multi_disable,
   only_self |-> only_self]

\* note 40 against cause 38 at 50%, looking at the incoming note only
file_only_self == << rule({40}, {38}, 50, -1, FALSE, TRUE, TRUE) >>
\* the same rule, looking at all recent messages of the note
file_siblings == << rule({40}, {38}, 50, -1, FALSE, TRUE, FALSE) >>
\* a lenient threshold for note 40
file_lenient == << rule({40}, {38}, 10, -1, FALSE, TRUE, FALSE) >>
\* every disable event blocks one hit of note 40
file_disable == << rule({40}, {}, -1, -1, TRUE, FALSE, FALSE) >>
\* a disable event blocks note 40 for the whole window
file_multi == << rule({40}, {}, -1, -1, TRUE, TRUE, FALSE) >>
\* two rules for note 40, both consuming disable events
file_order == << rule({40}, {}, 0, 25, FALSE, FALSE, FALSE),
                 rule({40}, {38}, 50, -1, TRUE, FALSE, FALSE) >>
\* a minimum velocity for all notes
file_minimum == << rule({}, {}, -1, 25, FALSE, TRUE, FALSE) >>

Configs ==
  { defaults,
    [defaults EXCEPT !.minimum = 25],
    [defaults EXCEPT !.threshold = 56],
    [defaults EXCEPT !.before = TRUE, !.dtypes = "any"],
    [defaults EXCEPT !.policy = file_only_self],
    [defaults EXCEPT !.policy = file_siblings],
    [defaults EXCEPT !.policy = file_lenient],
    [defaults EXCEPT !.policy = file_disable],
    [defaults EXCEPT !.policy = file_multi],
    [defaults EXCEPT !.policy = file_order],
    [defaults EXCEPT !.policy = file_minimum],
    [defaults EXCEPT !.plugins = <<"faulty">>],
    [defaults EXCEPT !.plugins = <<"twice", "faulty", "notes_only">>, !.before = TRUE],
    [defaults EXCEPT !.plugins = <<"broken", "pass">>],
    [defaults EXCEPT !.plugins = <<"pass", "abort">>, !.dtypes = "note_off"] }

Init ==
  /\ ARGS \in Configs
  /\ POLICY = FilterPolicy(ARGS)
  /\ PLUGINS = ARGS.plugins
  /\ HISTORY = MessageHistory
  /\ DISABLED = MessageHistory
  /\ QUEUE = <<>>
  /\ cache = <<>>
  /\ timers = <<>>
  /\ midiout = <<>>
  /\ pc = "get"
  /\ cur = <<>>
  /\ wake = 0
  /\ now = 0
  /\ arrivals = <<>>
  /\ logged = 0
  /\ evald = NoEval
  /\ plugin = no_plugin
  /\ tasks = <<>>
  /\ sent = <<>>
  /\ res = no_res

\* the pipeline without a clock: a sleep may end and a timer may fire at
\* any time after it was started
Next ==
  \/ \E msg \in Msgs : read_in(msg)
  \/ write_out_get
  \/ write_out_handle
  \/ cleanup_note_on
  \/ cleanup_disabled

Spec == Init /\ [][Next]_vars

\* ------------------------------------------------------------------------
\* Properties of FilterPolicy, read off the step of write_out that called
\* blocks: evald.HISTORY and evald.DISABLED are the histories at the call
\* ------------------------------------------------------------------------
\* the rules of the evaluated note
evald_policies == POLICY[evald.msg[2]]

\* the minimum and the notes a rule of a policy file stands for
minimum_of(policy) ==
  IF policy.minimum < 0 \/ policy.minimum > 127 THEN ARGS.minimum ELSE policy.minimum

all_notes == Data1

notes_of(policy) == IF policy.notes = {} THEN all_notes ELSE policy.notes

\* the rules handed to add_policy, in order
rules_added ==
  IF ARGS.policy = <<>> THEN << cli_policy(-1) >> ELSE ARGS.policy \o << cli_policy(0) >>

\* C1 (as claimed): a note-on of a note covered by a loaded rule with
\* minimum M and with velocity < M is blocked, also when the rule's notes
\* list is empty and so covers every note 0..127.
C1_MinimumAlwaysBlocks ==
  evald.called =>
    \A k \in 1..Len(rules_added) :
      (evald.msg[2] \in notes_of(rules_added[k]) /\ evald.msg[3] < minimum_of(rules_added[k]))
        => evald.bpolicy.policy /= 0

\* the velocities of the messages of the cause notes in h
cause_velocities(h, cause) ==
  UNION { { h[val][k][3] : k \in 1..Len(h[val]) } : val \in cause }

\* velocity reaches threshold x the loudest of the given velocities (any
\* velocity does when there are none)
reaches_loudest(velocity, velocities, threshold) ==
  \A c \in velocities : reaches(velocity, c, threshold)

\* the velocity the command-line threshold alone would ask for is not reached
\* by any message of the note in HISTORY
cli_threshold_blocks(msg, h) ==
  ~\E k \in 1..Len(h[msg[2]]) :
     reaches_loudest(h[msg[2]][k][3], cause_velocities(h, Data1), ARGS.threshold)

\* C2 (as claimed): with user policies loaded, a note-on that the
\* command-line threshold alone would block is blocked.
C2_CliThresholdEnforced ==
  (evald.called /\ ARGS.policy /= <<>> /\ cli_threshold_blocks(evald.msg, evald.HISTORY))
    => evald.bpolicy.policy /= 0

\* the number of rules the policy file gave the evaluated note
user_rules == Len(add_policies(no_policies, ARGS.policy, ARGS)[evald.msg[2]])

\* C2 (amended): with user policies loaded, the rule appended last carries
\* threshold 0 and no cause, so it blocks only through the command-line
\* minimum: a note-on with velocity >= the command-line minimum is blocked
\* only by a rule of the policy file, also when the command-line threshold
\* alone would block it.
C2_AppendedRuleOnlyMinimum ==
  (evald.called /\ ARGS.policy /= <<>>) =>
    /\ \A i \in (user_rules + 1)..Len(evald_policies) :
         /\ evald_policies[i].threshold = 0
         /\ evald_policies[i].cause = {}
         /\ evald_policies[i].minimum = ARGS.minimum
    /\ Len(evald_policies) <= user_rules + 1
    /\ (evald.msg[3] >= ARGS.minimum /\ evald.bpolicy.policy /= 0)
         => evald.bpolicy.policy <= user_rules

\* C2 witness: a weak hit the command-line threshold would block passes a
\* lenient user rule and the appended rule
C2_Witness ==
  /\ evald.called
  /\ ARGS.policy /= <<>>
  /\ cli_threshold_blocks(evald.msg, evald.HISTORY)
  /\ evald.bpolicy.policy = 0
  /\ evald.bpolicy.evaluated = user_rules + 1
  /\ user_rules > 0

\* some message of the note in h reaches threshold x the loudest velocity
\* among the messages of the cause notes in h
vouched(msg, h, cause, threshold) ==
  \E k \in 1..Len(h[msg[2]]) :
    reaches_loudest(h[msg[2]][k][3], cause_velocities(h, cause), threshold)

C4_SingleHitPasses ==
  (ARGS.policy = <<>> /\ PLUGINS = <<>> /\ ~ARGS.before) =>
    /\ (Len(arrivals) = 1 /\ is_note_on(arrivals[1][1])
          /\ arrivals[1][1][3] >= ARGS.minimum) =>
         midiout = IF QUEUE = <<>> /\ pc = "get" THEN << arrivals[1][1] >> ELSE <<>>
    /\ (evald.called /\ evald.msg[3] >= ARGS.minimum
          /\ get_all(evald.HISTORY, Data1) = {evald.msg}
          /\ Len(evald.HISTORY[evald.msg[2]]) = 1
          /\ get_all(evald.DISABLED, Data1) = {}) =>
         /\ evald.pmsgs = << evald.msg >>
         /\ midiout /= <<>>
         /\ midiout[Len(midiout)] = evald.msg

\* C4 witness: scenario 1, [0x90,38,100] in and out
C4_Witness ==
  /\ ARGS = defaults
  /\ arrivals = << << <<144, 38, 100>>, 0 >> >>
  /\ evald.called
  /\ midiout = << <<144, 38, 100>> >>

\* the number of disable events of the note the rules before rule i consumed
pops_before(policies, i) ==
  Cardinality({ j \in 1..(i - 1) : ~policies[j].multi_disable })

\* a disable event of the note is left when rule i of the list is evaluated
disabled_at(policies, i, msg, d) == Len(d[msg[2]]) > pops_before(policies, i)

prefix(l, n) == SubSeq(l, 1, IF n < 0 THEN 0 ELSE n)

\* the messages the dispatcher has handled
handled == Len(arrivals) - Len(QUEUE) - (IF pc = "sleep" THEN 1 ELSE 0)

\* the aftertouch messages that arrived
aftertouches ==
  Cardinality({ k \in 1..Len(arrivals) : arrivals[k][1] = <<160, 40, 127>> })

\* C6: blocks removes from the DISABLED bucket of the note one event, the
\* most recently added, for every evaluated rule with multi_disable = false
\* while events are left, whether or not the rule checks or blocks, and none
\* for rules with multi_disable = true; no other bucket changes. With a rule
\* {check_disable, not multi_disable} first in the list, one stored event
\* blocks the note-on and is consumed, and of the handled note-ons no more
\* are withheld from the output than disable events arrived.
C6_ConsumesOnePerRule ==
  evald.called =>
    LET note == evald.msg[2]
        n == pops_before(evald_policies, evald.bpolicy.evaluated + 1)
    IN /\ evald.bpolicy.DISABLED[note]
            = prefix(evald.DISABLED[note], Len(evald.DISABLED[note]) - n)
       /\ \A other \in Data1 \ {note} :
            evald.bpolicy.DISABLED[other] = evald.DISABLED[other]
       /\ DISABLED = evald.bpolicy.DISABLED
       /\ (/\ ARGS.policy = file_disable
           /\ note = 40
           /\ Len(evald.DISABLED[40]) = 1) =>
            /\ evald.bpolicy.policy = 1
            /\ DISABLED[40] = <<>>
       /\ (/\ ARGS.policy = file_disable
           /\ \A k \in 1..Len(arrivals) :
                arrivals[k][1] \in { <<160, 40, 127>>, <<144, 40, 56>> }) =>
            handled - Len(midiout) <= aftertouches

\* C6 witness: scenario 4; the aftertouch and the second of two identical
\* hits were written, the first hit was blocked
C6_Witness ==
  /\ ARGS.policy = file_disable
  /\ arrivals = << << <<160, 40, 127>>, 0 >>, << <<144, 40, 56>>, 0 >>,
                   << <<144, 40, 56>>, 0 >> >>
  /\ midiout = << <<160, 40, 127>>, <<144, 40, 56>> >>
  /\ evald.called
  /\ evald.DISABLED[40] = <<>>
  /\ evald.bpolicy.policy = 0

\* C7: when every rule of the note has multi_disable = true, blocks leaves
\* HISTORY and DISABLED as they were, a second call on the state it leaves
\* returns the same result, and a stored disable event of the note blocks
\* the note-on whenever a rule of the note has check_disable.
C7_PureWithMultiDisable ==
  (evald.called /\ \A i \in 1..Len(evald_policies) : evald_policies[i].multi_disable) =>
    /\ HISTORY = evald.HISTORY
    /\ DISABLED = evald.DISABLED
    /\ blocks(POLICY, evald.msg, HISTORY, DISABLED).policy = evald.bpolicy.policy
    /\ (/\ has_similar(evald.DISABLED, evald.msg)
        /\ \E i \in 1..Len(evald_policies) : evald_policies[i].check_disable)
         => evald.bpolicy.policy /= 0

\* C7 witness: one aftertouch has blocked two hits of note 40 and is still
\* stored
C7_Witness ==
  /\ ARGS.policy = file_multi
  /\ Len(arrivals) = 3
  /\ midiout = << <<160, 40, 127>> >>
  /\ QUEUE = <<>>
  /\ evald.called
  /\ evald.bpolicy.policy = 1
  /\ DISABLED[40] = << <<160, 40, 127>> >>

\* rule i of the list blocks msg, given the histories at the call
rule_blocks(policies, i, msg, h, d) ==
  \/ msg[3] < policies[i].minimum
  \/ policies[i].check_disable /\ disabled_at(policies, i, msg, d)
  \/ ~acceptable(policies[i], msg, h)

\* C8: blocks returns the first rule of the note's list, in load order with
\* the appended rule last, that blocks; the rules after it are not
\* evaluated and consume no disable event; it returns none when no rule
\* blocks or the note has no rules.
C8_FirstBlockingRuleWins ==
  evald.called =>
    LET blocking == { i \in 1..Len(evald_policies) :
                        rule_blocks(evald_policies, i, evald.msg, evald.HISTORY, evald.DISABLED) }
        first == IF blocking = {} THEN 0
                 ELSE CHOOSE i \in blocking : \A j \in blocking : i <= j
        note == evald.msg[2]
    IN /\ evald.bpolicy.policy = first
       /\ evald.bpolicy.evaluated = IF first = 0 THEN Len(evald_policies) ELSE first
       /\ Len(evald.DISABLED[note]) - Len(DISABLED[note])
            <= pops_before(evald_policies, evald.bpolicy.evaluated + 1)
       /\ evald_policies = add_policies(no_policies, ARGS.policy, ARGS)[note]
            \o SubSeq(evald_policies, user_rules + 1, Len(evald_policies))
       /\ (evald.bpolicy.policy = 0) = (evald.msgs /= <<>>)

\* C8 witness: the first of two consuming rules blocks a weak hit through
\* its minimum; only one of the two stored disable events is consumed
C8_Witness ==
  /\ ARGS.policy = file_order
  /\ evald.called
  /\ evald.msg = <<144, 40, 20>>
  /\ Len(evald.DISABLED[40]) = 2
  /\ evald.bpolicy.policy = 1
  /\ Len(DISABLED[40]) = 1

\* ------------------------------------------------------------------------
\* The pipeline with its clock: a sleep ends and a timer fires when its time
\* has come, and the clock does not pass a step that is due
\* ------------------------------------------------------------------------
\* the clock stops here
MaxTime == 5

\* --plugins-only
plugins_only ==
  [defaults EXCEPT !.threshold = 0, !.delay = 0, !.history = 0, !.minimum = 0]

TimedConfigs ==
  { [defaults EXCEPT !.delay = 1, !.history = 2],
    [defaults EXCEPT !.delay = 2, !.history = 1, !.before = TRUE],
    plugins_only }

InitTimed ==
  /\ ARGS \in TimedConfigs
  /\ POLICY = FilterPolicy(ARGS)
  /\ PLUGINS = ARGS.plugins
  /\ HISTORY = MessageHistory
  /\ DISABLED = MessageHistory
  /\ QUEUE = <<>>
  /\ cache = <<>>
  /\ timers = <<>>
  /\ midiout = <<>>
  /\ pc = "get"
  /\ cur = <<>>
  /\ wake = 0
  /\ now = 0
  /\ arrivals = <<>>
  /\ logged = 0
  /\ evald = NoEval
  /\ plugin = no_plugin
  /\ tasks = <<>>
  /\ sent = <<>>
  /\ res = no_res

tick ==
  /\ running
  /\ now < MaxTime
  /\ ~(pc = "get" /\ QUEUE /= <<>>)
  /\ ~(pc = "sleep" /\ wake <= now)
  /\ ~(timers /= <<>> /\ Head(timers).when <= now)
  /\ now' = now + 1
  /\ evald' = NoEval
  /\ UNCHANGED <<ARGS, POLICY, PLUGINS, HISTORY, DISABLED, QUEUE, cache, timers,
                 midiout, pc, cur, wake, arrivals, logged>>
  /\ UNCHANGED plugin_vars

sleep_over == wake <= now /\ write_out_handle

note_on_due == timers /= <<>> /\ Head(timers).when <= now /\ cleanup_note_on

disabled_due == timers /= <<>> /\ Head(timers).when <= now /\ cleanup_disabled

\* the messages delivered in the runs with a clock
TimedMsgs == { <<144, 38, 100>>, <<144, 40, 20>>, <<160, 40, 127>>, <<176, 7, 64>> }

NextTimed ==
  \/ \E msg \in TimedMsgs : read_in(msg)
  \/ write_out_get
  \/ sleep_over
  \/ note_on_due
  \/ disabled_due
  \/ tick

SpecTimed == InitTimed /\ [][NextTimed]_vars

\* how often msg is in list l
occurrences(l, msg) == Cardinality({ k \in 1..Len(l) : l[k] = msg })

\* the arrivals of msg within the last history + delay ms
recent(msg) ==
  { j \in 1..Len(arrivals) :
      arrivals[j][1] = msg /\ now - arrivals[j][2] <= ARGS.history + ARGS.delay }

\* C9: at every moment each message in HISTORY is a note-on, and no message
\* is in HISTORY more often than it arrived within the last history + delay
\* ms; so HISTORY holds no more messages than note-ons arrived in that time.
C9_HistoryWindow ==
  /\ \A note \in Data1 : \A k \in 1..Len(HISTORY[note]) :
       /\ is_note_on(HISTORY[note][k])
       /\ HISTORY[note][k][2] = note
       /\ occurrences(HISTORY[note], HISTORY[note][k])
            <= Cardinality(recent(HISTORY[note][k]))
  /\ \A note \in Data1 :
       Len(HISTORY[note])
         <= Cardinality({ j \in 1..Len(arrivals) :
              /\ is_note_on(arrivals[j][1])
              /\ arrivals[j][1][2] = note
              /\ now - arrivals[j][2] <= ARGS.history + ARGS.delay })

\* C9 witness: a note-on that arrived exactly history + delay ms ago, after
\* an earlier message, is still in HISTORY
C9_Witness ==
  /\ ARGS.delay > 0
  /\ \E j \in 2..Len(arrivals) :
       /\ is_note_on(arrivals[j][1])
       /\ now - arrivals[j][2] = ARGS.history + ARGS.delay
       /\ \A i \in 1..Len(arrivals) : i /= j => arrivals[i][1] /= arrivals[j][1]
       /\ has_similar(HISTORY, arrivals[j][1])

\* ------------------------------------------------------------------------
\* Plugin failures
\* ------------------------------------------------------------------------
\* what plugin k of the trace handed on: the input of the next plugin, or
\* the messages written to the MIDI output
handed_on(k) ==
  IF k < Len(evald.trace) THEN evald.trace[k + 1].input ELSE evald.pmsgs

\* C10 (as claimed): when process raises XtalkPluginException for a message,
\* the failure is printed, the message the plugin failed on is not handed to
\* the next plugin or the output, and the dispatcher goes on.
C10_FailingPluginEmitsNothing ==
  \A k \in 1..Len(evald.trace) :
    evald.trace[k].raises = "XtalkPluginException" =>
      /\ logged > 0
      /\ \A n \in 1..Len(handed_on(k)) : handed_on(k)[n] /= evald.trace[k].at[1]
      /\ (\A j \in 1..Len(evald.trace) :
            evald.trace[j].raises \in {"", "XtalkPluginException"}) => pc = "get"

\* a plugin of the last dispatcher step raised XtalkPluginAbortException
abort_raised ==
  \E k \in 1..Len(evald.trace) : evald.trace[k].raises = "XtalkPluginAbortException"

\* C11: once a plugin raises an abort while processing a message, the
\* dispatcher has stopped for good: the step in which the abort is raised
\* runs no later plugin and writes nothing, and from then on no queued
\* message is dequeued, no plugin is run and nothing is written to the MIDI
\* output.
C11_AbortStopsDispatcher ==
  [][ /\ abort_raised' =>
           /\ pc' = "aborted"
           /\ midiout' = midiout
           /\ evald'.trace[Len(evald'.trace)].raises = "XtalkPluginAbortException"
      /\ pc = "aborted" =>
           /\ pc' = "aborted"
           /\ QUEUE' = QUEUE
           /\ midiout' = midiout
           /\ cur' = cur
           /\ evald' = evald ]_vars

\* the dispatcher has stopped on an abort while a later message is queued
C11_Witness ==
  /\ pc = "aborted"
  /\ abort_raised
  /\ QUEUE /= <<>>
  /\ Len(PLUGINS) = 2

\* what a plugin yields for a batch: the yields for each message, in the
\* order of the batch, up to the message for which process raises
RECURSIVE yields_of(_, _)
yields_of(name, input) ==
  IF input = <<>> THEN <<>>
  ELSE LET r == process(name, Head(input))
       IN IF r.raises /= "" THEN r.yields
          ELSE r.yields \o yields_of(name, Tail(input))

\* the last n elements of a list
suffix(l, n) == SubSeq(l, Len(l) - n + 1, Len(l))

\* C12 (as claimed): in every batch that the dispatcher carries through,
\* plugin k+1 receives exactly what plugin k yielded, in the order yielded,
\* the yields of the last plugin are written to the MIDI output in that
\* order, and a message for which a plugin yields nothing reaches no later
\* plugin and is not written.
C12_ChainHandsOnYields ==
  (evald.msg /= <<>> /\ evald.raises = "") =>
    /\ \A k \in 1..Len(evald.trace) :
         handed_on(k) = yields_of(PLUGINS[evald.trace[k].plugin], evald.trace[k].input)
    /\ Len(midiout) >= Len(evald.pmsgs)
    /\ suffix(midiout, Len(evald.pmsgs)) = evald.pmsgs

\* ------------------------------------------------------------------------
\* The pre-note cache and disable events
\* ------------------------------------------------------------------------
\* a message that is neither a note-on nor a note-off nor an aftertouch
other(msg) == kind(msg) \notin {MIDI_NOTEON, MIDI_NOTEOFF, MIDI_AFTERTOUCH}

\* a note-on that sounds
sounding(msg) == kind(msg) = MIDI_NOTEON /\ msg[3] > 0

\* of the first n arrivals, the other messages that came after the last
\* note-on, in arrival order
RECURSIVE withheld(_)
withheld(n) ==
  IF n <= 0 \/ sounding(arrivals[n][1]) THEN <<>>
  ELSE IF other(arrivals[n][1]) THEN Append(withheld(n - 1), arrivals[n][1])
  ELSE withheld(n - 1)

\* C13: with before set, a message that is neither a note-on nor a disable
\* event nor a note-off/aftertouch is withheld in the cache and not forwarded;
\* at the next note-on decision the withheld messages are forwarded in
\* arrival order immediately before the allowed note-on, or dropped with the
\* blocked note-on; after either outcome the cache is empty, so they are
\* never forwarded later.
C13_BeforeCache ==
  ARGS.before =>
    /\ cache = withheld(handled)
    /\ (evald.msg /= <<>> /\ other(evald.msg)) =>
         /\ evald.msgs = <<>>
         /\ evald.trace = <<>>
         /\ cache /= <<>>
         /\ cache[Len(cache)] = evald.msg
    /\ evald.called =>
         /\ cache = <<>>
         /\ evald.bpolicy.policy = 0 => evald.msgs = Append(withheld(handled - 1), evald.msg)
         /\ evald.bpolicy.policy /= 0 => evald.msgs = <<>>
         /\ (PLUGINS = <<>> /\ evald.bpolicy.policy = 0) =>
              /\ Len(midiout) >= Len(evald.msgs)
              /\ suffix(midiout, Len(evald.msgs)) = evald.msgs

\* an allowed note-on takes a withheld message along
C13_Witness ==
  /\ ARGS.before
  /\ evald.called
  /\ evald.bpolicy.policy = 0
  /\ Len(evald.msgs) = 2
  /\ other(evald.msgs[1])
  /\ midiout /= <<>>

\* a disable event according to the configured dtypes
disable_event(msg) ==
  LET off == kind(msg) = MIDI_NOTEOFF \/ (kind(msg) = MIDI_NOTEON /\ msg[3] = 0)
      touch == kind(msg) = MIDI_AFTERTOUCH
  IN CASE ARGS.dtypes = "none" -> FALSE
       [] ARGS.dtypes = "note_off" -> off
       [] ARGS.dtypes = "aftertouch" -> touch
       [] OTHER -> off \/ touch

\* C14: a disable event is forwarded in its own dispatch iteration as a batch
\* of its own: FilterPolicy.blocks is not called for it and DISABLED is not
\* consumed, the batch goes to the first plugin, or to the MIDI output when
\* there are no plugins, whatever HISTORY, DISABLED, the policy table and
\* the cache hold.
C14_DisableEventForwarded ==
  (evald.msg /= <<>> /\ disable_event(evald.msg)) =>
    /\ ~evald.called
    /\ evald.bpolicy.evaluated = 0
    /\ DISABLED = evald.DISABLED
    /\ evald.msgs = <<evald.msg>>
    /\ PLUGINS /= <<>> => (evald.trace /= <<>> /\ evald.trace[1].input = <<evald.msg>>)
    /\ PLUGINS = <<>> => (midiout /= <<>> /\ midiout[Len(midiout)] = evald.msg)

\* a disable event is forwarded while a message is withheld in the cache and
\* a hit is in HISTORY
C14_Witness ==
  /\ evald.msg /= <<>>
  /\ disable_event(evald.msg)
  /\ cache /= <<>>
  /\ \E n \in DOMAIN evald.HISTORY : evald.HISTORY[n] /= <<>>
  /\ evald.DISABLED[evald.msg[2]] /= <<>>
  /\ midiout /= <<>>
  /\ midiout[Len(midiout)] = evald.msg

\* ------------------------------------------------------------------------
\* The choke plugin (plugins/choke.py)
\* ------------------------------------------------------------------------
\* number of messages handed to the process of the plugin under study
MaxCalls == 4

\* d.get(str(note), d["default"]) for the per-note settings
dict_get(d, note) == IF note \in DOMAIN d.per THEN d.per[note] ELSE d.default

\* a per-note setting that only has its default
only_default(n) == [default |-> n, per |-> <<>>]

\* XtalkPlugin_choke.__init__ with the given config; last = <<>> and
\* last_time = 0 stand for None (last_time is only tested for truth)
XtalkPlugin_choke(config) ==
  [name |-> "choke",
   CHOKE |-> config.choke, CHOKE_MIN |-> config.choke_min,
   CHOKE_MAX |-> config.choke_max, CHOKE_CNT |-> config.choke_cnt,
   CYMBAL_MIN |-> config.cymbal_min, TIMEOUT |-> config.timeout,
   last |-> <<>>, last_time |-> 0, last_choked |-> FALSE, choke_cnt |-> 0,
   notes |-> UNION { config.choke[n] : n \in DOMAIN config.choke }]

\* mutant: the choke is sent on channel 1
choke_create_choke_ch1(msg) == << <<MIDI_AFTERTOUCH, msg[2], 127>>, <<MIDI_AFTERTOUCH, msg[2], 0>> >>

\* _create_choke: aftertouch with full pressure, then zero, on the channel
\* of msg
choke_create_choke(msg) ==
  << <<MIDI_AFTERTOUCH + (msg[1] % 16), msg[2], 127>>,
     <<MIDI_AFTERTOUCH + (msg[1] % 16), msg[2], 0>> >>

choke_clear(self) ==
  [self EXCEPT !.last = <<>>, !.last_time = 0, !.choke_cnt = 0, !.last_choked = FALSE]

\* mutant: a choke is emitted for every indicator from CHOKE_CNT on
choke_emits_again(self, choke_cnt) == self.choke_cnt >= choke_cnt

\* "if self.choke_cnt >= choke_cnt: if not self.last_choked:"
choke_emits(self, choke_cnt) == self.choke_cnt >= choke_cnt /\ ~self.last_choked

\* mutant: the timeout is reached when more than TIMEOUT ms have passed
\* since the cymbal hit
choke_timeout_elapsed(self, t) == self.last_time /= 0 /\ (t - self.last_time) > self.TIMEOUT

\* "if self.last_time and (self.last_time - now) > self.TIMEOUT"
choke_timeout(self, t) == self.last_time /= 0 /\ (self.last_time - t) > self.TIMEOUT

\* process(msg) at time t: the instance afterwards, the messages yielded,
\* the value of last at the check for a choke note and whether msg was
\* assigned to last
choke_process(self, msg, t) ==
  LET note == msg[2]
      velocity == msg[3]
      choke_min == dict_get(self.CHOKE_MIN, note)
      choke_max == dict_get(self.CHOKE_MAX, note)
      cymbal_min == dict_get(self.CYMBAL_MIN, note)
      choke_cnt == dict_get(self.CHOKE_CNT, note)
      s1 == IF choke_timeout(self, t) THEN choke_clear(self) ELSE self
      chokes == IF note \in DOMAIN s1.CHOKE THEN s1.CHOKE[note] ELSE {}
      s2 == [s1 EXCEPT !.choke_cnt = @ + 1]
      s3 == choke_clear(s1)
  IN IF ~is_note_on(msg)
     THEN [self |-> self, yields |-> <<msg>>, last |-> self.last, recorded |-> FALSE]
     ELSE IF s1.last /= <<>> /\ choke_max >= velocity /\ velocity >= choke_min
             /\ s1.last[2] \in chokes
     THEN [self |-> IF choke_emits(s2, choke_cnt)
                    THEN [s2 EXCEPT !.last_choked = TRUE] ELSE s2,
           yields |-> IF choke_emits(s2, choke_cnt)
                      THEN choke_create_choke(s1.last) ELSE <<>>,
           last |-> s1.last, recorded |-> FALSE]
     ELSE IF note \in s1.notes
     THEN [self |-> IF velocity >= cymbal_min
                    THEN [s3 EXCEPT !.last = msg, !.last_time = t, !.last_choked = FALSE]
                    ELSE s3,
           yields |-> <<msg>>, last |-> s1.last, recorded |-> velocity >= cymbal_min]
     ELSE [self |-> s1, yields |-> <<msg>>, last |-> s1.last, recorded |-> FALSE]

\* the messages handed to the choke plugin: a loud, a weak and a soft hit
\* of cymbal 55 and a soft hit of its rim 56 on channel 10, a loud hit of
\* cymbal 57 on channel 1, a snare hit and a note-off
ChokeMsgs ==
  { <<153, 55, 100>>, <<153, 55, 30>>, <<153, 55, 10>>, <<153, 56, 10>>,
    <<144, 57, 90>>, <<153, 38, 100>>, <<137, 55, 0>> }

\* plugin configurations: the class defaults with one choke note; a cymbal
\* that is choked by its own soft hits, with two indicators needed except
\* for the rim; a negative timeout
ChokeConfigs ==
  { [choke |-> (56 :> {55}), choke_min |-> only_default(0), choke_max |-> only_default(20),
     choke_cnt |-> only_default(1), cymbal_min |-> only_default(50), timeout |-> 3000],
    [choke |-> (55 :> {55, 57}) @@ (56 :> {55}), choke_min |-> only_default(5),
     choke_max |-> only_default(20), choke_cnt |-> [default |-> 2, per |-> (56 :> 1)],
     cymbal_min |-> only_default(50), timeout |-> 2],
    [choke |-> (56 :> {55, 57}), choke_min |-> only_default(0), choke_max |-> only_default(20),
     choke_cnt |-> only_default(2), cymbal_min |-> [default |-> 50, per |-> (57 :> 95)],
     timeout |-> -1] }

\* the pipeline at rest with the given command line
idle(args) ==
  /\ ARGS = args
  /\ POLICY = FilterPolicy(ARGS)
  /\ PLUGINS = args.plugins
  /\ HISTORY = MessageHistory
  /\ DISABLED = MessageHistory
  /\ QUEUE = <<>>
  /\ cache = <<>>
  /\ timers = <<>>
  /\ midiout = <<>>
  /\ pc = "get"
  /\ cur = <<>>
  /\ wake = 0
  /\ arrivals = <<>>
  /\ logged = 0
  /\ evald = NoEval

pipeline_vars == <<ARGS, POLICY, PLUGINS, HISTORY, DISABLED, QUEUE, cache, timers,
                   midiout, pc, cur, wake, arrivals, logged, evald>>

\* the clock shows milliseconds since the epoch and is never 0
InitChoke ==
  /\ idle([defaults EXCEPT !.plugins = <<"choke">>])
  /\ now = 1
  /\ \E config \in ChokeConfigs : plugin = XtalkPlugin_choke(config)
  /\ tasks = <<>>
  /\ sent = <<>>
  /\ res = no_res

\* the dispatcher hands msg to process, d ms after the previous call.
\* res.seen lists the calls since last was assigned the last time.
choke_call(msg, d) ==
  /\ plugin.name = "choke"
  /\ res.calls < MaxCalls
  /\ now + d <= MaxTime
  /\ now' = now + d
  /\ LET r == choke_process(plugin, msg, now + d)
         call == [msg |-> msg, last |-> r.last, yields |-> r.yields, t |-> now + d]
     IN /\ plugin' = r.self
        /\ res' = [calls |-> res.calls + 1,
                   seen |-> IF r.recorded THEN <<>> ELSE Append(res.seen, call)]
  /\ UNCHANGED <<tasks, sent>>
  /\ UNCHANGED pipeline_vars

NextChoke == \E msg \in ChokeMsgs, d \in 0..1 : choke_call(msg, d)

SpecChoke == InitChoke /\ [][NextChoke]_vars

\* the two messages of a choke
is_choke_pair(yields) ==
  /\ Len(yields) = 2
  /\ kind(yields[1]) = MIDI_AFTERTOUCH /\ yields[1][3] = 127
  /\ kind(yields[2]) = MIDI_AFTERTOUCH /\ yields[2][3] = 0

\* the calls since the last assignment of last that yielded a choke
chokes_seen == { k \in 1..Len(res.seen) : is_choke_pair(res.seen[k].yields) }

\* call c was made with a choke indicator: last exists, the note-on has a
\* velocity in [CHOKE_MIN, CHOKE_MAX] and its CHOKE set holds last's note
indicator(c) ==
  /\ c.last /= <<>>
  /\ sounding(c.msg)
  /\ c.msg[3] >= dict_get(plugin.CHOKE_MIN, c.msg[2])
  /\ c.msg[3] <= dict_get(plugin.CHOKE_MAX, c.msg[2])
  /\ c.msg[2] \in DOMAIN plugin.CHOKE
  /\ c.last[2] \in plugin.CHOKE[c.msg[2]]

\* C15: between two consecutive assignments of last the choke pair is
\* yielded at most once, however many choke indicators arrive.
C15_OneChokePerHit ==
  plugin.name = "choke" => Cardinality(chokes_seen) <= 1

\* the hit was choked and a further indicator came in afterwards
C15_Witness ==
  /\ plugin.name = "choke"
  /\ plugin.last /= <<>>
  /\ \E k \in chokes_seen :
       \E j \in 1..Len(res.seen) : j > k /\ indicator(res.seen[j]) /\ res.seen[j].yields = <<>>

\* C16: a choke indicator is never yielded, also when its note is a cymbal
\* note itself; when the indicators since last was assigned reach the
\* CHOKE_CNT of the note and last has not been choked, the call yields
\* exactly (0xA0 | channel of last, note of last, 127) and then
\* (0xA0 | channel of last, note of last, 0).
C16_ChokeIndicator ==
  plugin.name = "choke" =>
    \A k \in 1..Len(res.seen) :
      LET c == res.seen[k]
          count == Cardinality({ j \in 1..k : indicator(res.seen[j]) })
          choked == \E j \in chokes_seen : j < k
      IN indicator(c) =>
           /\ \A n \in 1..Len(c.yields) : c.yields[n] /= c.msg
           /\ (count >= dict_get(plugin.CHOKE_CNT, c.msg[2]) /\ ~choked) =>
                c.yields = << <<160 + (c.last[1] % 16), c.last[2], 127>>,
                              <<160 + (c.last[1] % 16), c.last[2], 0>> >>

\* the second soft hit of cymbal 55 chokes the loud hit of cymbal 55 on
\* channel 10
C16_Witness ==
  /\ plugin.name = "choke"
  /\ Len(res.seen) = 2
  /\ indicator(res.seen[1]) /\ res.seen[1].yields = <<>>
  /\ indicator(res.seen[2])
  /\ res.seen[2].msg[2] \in plugin.notes
  /\ res.seen[2].yields = << <<169, 55, 127>>, <<169, 55, 0>> >>

\* ------------------------------------------------------------------------
\* The replay plugin (plugins/replay.py)
\* ------------------------------------------------------------------------
\* number of messages handed to the process of the replay plugin
MaxReplayCalls == 5

\* the last time of the runs of the replay plugin
MaxReplayTime == 6

\* None as the message of a cache entry
None == <<>>

\* XtalkPlugin_replay.__init__ with the given config. LOOP is read from the
\* key "pass" as PASS is; cache_last = 0 stands for None (it is only tested
\* for truth before it is set).
XtalkPlugin_replay(config) ==
  [name |-> "replay",
   RECORD |-> config.record, PLAY |-> config.play,
   PASS |-> config.pass, LOOP |-> config.pass,
   PLAY_STOPS_RECORD |-> config.play_stops_record,
   recording |-> FALSE, cache |-> <<>>, cache_last |-> 0, ignore |-> FALSE]

\* the play task: play_task is None when tasks is empty. pc is "ready"
\* (created or woken, not yet run), "sleep" (in asyncio.sleep before the
\* entry i), "done" (returned) or "spin" (in a loop without any await).
\* started, recording and from keep the time, self.recording and the number
\* of messages sent when the task was created.
play_task(t, recording, from) ==
  [pc |-> "ready", i |-> 0, wake |-> t, started |-> t, recording |-> recording, from |-> from]

\* mutant: play never sleeps
replay_waits_never(diff) == FALSE

\* "if diff > 1: await asyncio.sleep(diff/1000)"
replay_waits(diff) == diff > 1

\* play() from the entry i on until its next await or its return; slept
\* tells that the sleep before entry i is over, first that no await has
\* happened since the current run over the cache began
RECURSIVE replay_play(_, _, _, _, _, _)
replay_play(self, i, slept, first, t, out) ==
  IF self.cache = <<>> THEN [pc |-> "done", i |-> 0, wake |-> t, out |-> out]
  ELSE IF i > Len(self.cache)
  THEN IF ~self.LOOP THEN [pc |-> "done", i |-> 0, wake |-> t, out |-> out]
       ELSE IF first THEN [pc |-> "spin", i |-> 0, wake |-> t, out |-> out]
       ELSE replay_play(self, 1, FALSE, TRUE, t, out)
  ELSE LET msg == self.cache[i][1]
           diff == self.cache[i][2]
       IN IF replay_waits(diff) /\ ~slept
          THEN [pc |-> "sleep", i |-> i, wake |-> t + diff, out |-> out]
          ELSE replay_play(self, i + 1, FALSE, first,
                           t, IF msg /= None THEN Append(out, <<msg, t>>) ELSE out)

replay_is_playing(task) == task /= <<>> /\ task[1].pc /= "done"

\* mutant: every entry is stored with gap 0
replay_add_to_cache_flat(self, msg, t) ==
  [self EXCEPT !.cache = Append(@, <<msg, 0>>), !.cache_last = t]

\* add_to_cache at time t
replay_add_to_cache(self, msg, t) ==
  LET last == IF self.cache_last = 0 THEN t ELSE self.cache_last
  IN [self EXCEPT !.cache = Append(@, <<msg, t - last>>), !.cache_last = t]

replay_clear_cache(self) == [self EXCEPT !.cache = <<>>, !.cache_last = 0]

\* mutant: stop leaves the play task running
replay_stop_running(task) == task

\* stop: play_task.cancel(), "await self.play_task", play_task = None. The
\* task is cancelled at its sleep or before its first step and sends
\* nothing more.
replay_stop(task) == <<>>

\* toggle_play: stop() cancels the task and waits for it; otherwise a new
\* task is created
replay_toggle_play(self, task, t, from) ==
  IF replay_is_playing(task) THEN replay_stop(task)
  ELSE <<play_task(t, self.recording, from)>>

\* process(msg) at time t with the play task as it is and from messages
\* sent so far: the instance and the play task afterwards and the yields
replay_process(self, task, msg, t, from) ==
  LET note == msg[2]
      s1 == IF ~is_note_on(msg) THEN self
            ELSE IF note \in self.RECORD
            THEN IF ~self.recording
                 THEN [replay_clear_cache(self) EXCEPT !.recording = TRUE, !.ignore = TRUE]
                 ELSE IF self.cache /= <<>>
                 THEN [replay_add_to_cache(self, None, t) EXCEPT !.recording = FALSE]
                 ELSE [self EXCEPT !.recording = FALSE]
            ELSE IF note \in self.PLAY
            THEN IF self.PLAY_STOPS_RECORD
                 THEN [self EXCEPT !.recording = FALSE]
                 ELSE self
            ELSE [self EXCEPT !.ignore = FALSE]
      task1 == IF ~is_note_on(msg) THEN task
               ELSE IF note \in self.RECORD
               THEN IF ~self.recording THEN replay_stop(task) ELSE task
               ELSE IF note \in self.PLAY THEN replay_toggle_play(s1, task, t, from)
               ELSE task
      s2 == IF s1.recording /\ ~s1.ignore THEN replay_add_to_cache(s1, msg, t) ELSE s1
  IN [self |-> s2, task |-> task1, yields |-> IF s2.PASS THEN <<msg>> ELSE <<>>]

\* the messages handed to the replay plugin: the record note 36, the play
\* note 37, a hit and its note-off
ReplayMsgs == { <<144, 36, 100>>, <<144, 37, 100>>, <<144, 38, 90>>, <<128, 38, 0>> }

\* plugin configurations; the key "loop" is not read by the plugin
ReplayConfigs ==
  { [record |-> {36}, play |-> {37}, pass |-> TRUE, loop |-> FALSE, play_stops_record |-> TRUE],
    [record |-> {36}, play |-> {37}, pass |-> FALSE, loop |-> TRUE, play_stops_record |-> TRUE],
    [record |-> {36}, play |-> {37}, pass |-> TRUE, loop |-> TRUE, play_stops_record |-> FALSE] }

InitReplay ==
  /\ idle([defaults EXCEPT !.plugins = <<"replay">>])
  /\ now = 1
  /\ \E config \in ReplayConfigs : plugin = XtalkPlugin_replay(config)
  /\ tasks = <<>>
  /\ sent = <<>>
  /\ res = no_res

\* the event loop is blocked by a play task that never awaits
spinning == tasks /= <<>> /\ tasks[1].pc = "spin"

\* the dispatcher hands msg to process; a task that is ready to run has run
\* before the dispatcher gets to its next message. res.seen is the call
\* with the recording state and the cache it found.
replay_call(msg) ==
  /\ plugin.name = "replay"
  /\ res.calls < MaxReplayCalls
  /\ ~spinning
  /\ ~(tasks /= <<>> /\ tasks[1].pc = "ready")
  /\ LET r == replay_process(plugin, tasks, msg, now, Len(sent))
     IN /\ plugin' = r.self
        /\ tasks' = r.task
        /\ res' = [calls |-> res.calls + 1,
                   seen |-> <<[msg |-> msg, t |-> now, yields |-> r.yields,
                               recording |-> plugin.recording, cache |-> plugin.cache,
                               cache_last |-> plugin.cache_last,
                               playing |-> replay_is_playing(tasks)]>>]
  /\ UNCHANGED <<now, sent>>
  /\ UNCHANGED pipeline_vars

\* the play task runs from where it is to its next await or to its end
replay_play_run ==
  /\ plugin.name = "replay"
  /\ tasks /= <<>>
  /\ \/ tasks[1].pc = "ready"
     \/ tasks[1].pc = "sleep" /\ tasks[1].wake <= now
  /\ LET task == tasks[1]
         r == IF task.pc = "ready" THEN replay_play(plugin, 1, FALSE, TRUE, now, <<>>)
              ELSE replay_play(plugin, task.i, TRUE, FALSE, now, <<>>)
     IN /\ tasks' = <<[task EXCEPT !.pc = r.pc, !.i = r.i, !.wake = r.wake]>>
        /\ sent' = sent \o r.out
  /\ UNCHANGED <<plugin, res, now>>
  /\ UNCHANGED pipeline_vars

\* a millisecond passes, unless a task is due
replay_tick ==
  /\ plugin.name = "replay"
  /\ now < MaxReplayTime
  /\ ~spinning
  /\ ~(tasks /= <<>> /\ tasks[1].pc = "ready")
  /\ ~(tasks /= <<>> /\ tasks[1].pc = "sleep" /\ tasks[1].wake <= now)
  /\ now' = now + 1
  /\ UNCHANGED <<plugin, tasks, sent, res>>
  /\ UNCHANGED pipeline_vars

NextReplay ==
  \/ \E msg \in ReplayMsgs : replay_call(msg)
  \/ replay_play_run
  \/ replay_tick

SpecReplay == InitReplay /\ [][NextReplay]_vars

\* C18 (as claimed): whenever a call of process takes recording from true
\* to false with a non-empty cache, by a RECORD note or by a PLAY note with
\* PLAY_STOPS_RECORD, the sentinel (None, gap since the last entry) is
\* appended as the last cache entry.
C18_SentinelOnStop ==
  (plugin.name = "replay" /\ res.seen /= <<>>) =>
    LET c == res.seen[1]
    IN (c.recording /\ ~plugin.recording /\ c.cache /= <<>>) =>
         plugin.cache = Append(c.cache, <<None, c.t - c.cache_last>>)

\* a play task runs or has run that was started after a recording was
\* finished by the record note: the cache is empty or ends with the sentinel
played ==
  /\ plugin.name = "replay"
  /\ tasks /= <<>>
  /\ ~tasks[1].recording
  /\ plugin.cache /= <<>> => plugin.cache[Len(plugin.cache)][1] = None

\* the messages the current play task has sent
replayed == SubSeq(sent, tasks[1].from + 1, Len(sent))

\* the number of recorded messages
recorded == IF plugin.cache = <<>> THEN 0 ELSE Len(plugin.cache) - 1

\* the sum of the first i recorded gaps
RECURSIVE gaps(_)
gaps(i) == IF i = 0 THEN 0 ELSE gaps(i - 1) + plugin.cache[i][2]

\* the sum of the first i recorded gaps that exceed 1 ms
RECURSIVE long_gaps(_)
long_gaps(i) ==
  IF i = 0 THEN 0
  ELSE long_gaps(i - 1) + (IF plugin.cache[i][2] > 1 THEN plugin.cache[i][2] ELSE 0)

\* the k-th message sent is in its turn of the cache
in_turn(k) == replayed[k][1] = plugin.cache[((k - 1) % recorded) + 1][1]

\* C17 (as claimed): the play task sends exactly the recorded messages in
\* recorded order, never the sentinel, the first without a wait and each
\* later one after its recorded gap, once without LOOP and again and again
\* after the tail gap with LOOP.
C17_ReplayRecordedGaps ==
  played =>
    /\ \A k \in 1..Len(replayed) :
         /\ replayed[k][1] /= None
         /\ in_turn(k)
         /\ replayed[k][2] = tasks[1].started
                               + ((k - 1) \div recorded) * gaps(recorded + 1)
                               + gaps(((k - 1) % recorded) + 1)
    /\ ~plugin.LOOP => Len(replayed) <= recorded
    /\ (~plugin.LOOP /\ tasks[1].pc = "done") => Len(replayed) = recorded
    /\ (plugin.LOOP /\ recorded > 0) => tasks[1].pc /= "done"

\* C17 (amended): as C17, where a recorded gap is waited for only when it
\* exceeds 1 ms; no message that is due is missing.
C17_ReplayLongGaps ==
  played =>
    /\ \A k \in 1..Len(replayed) :
         /\ replayed[k][1] /= None
         /\ in_turn(k)
         /\ replayed[k][2] = tasks[1].started
                               + ((k - 1) \div recorded) * long_gaps(recorded + 1)
                               + long_gaps(((k - 1) % recorded) + 1)
    /\ \A k \in 1..(2 * recorded) :
         (/\ plugin.LOOP \/ k <= recorded
          /\ tasks[1].started + ((k - 1) \div recorded) * long_gaps(recorded + 1)
                + long_gaps(((k - 1) % recorded) + 1) < now) => k <= Len(replayed)
    /\ ~plugin.LOOP => Len(replayed) <= recorded
    /\ (~plugin.LOOP /\ tasks[1].pc = "done") => Len(replayed) = recorded
    /\ (plugin.LOOP /\ recorded > 0) => tasks[1].pc /= "done"

\* with LOOP the recorded hit is sent a second time, 2 ms after the first:
\* the tail gap
C17_Witness ==
  /\ played
  /\ plugin.LOOP
  /\ recorded = 1
  /\ plugin.cache[2] = <<None, 2>>
  /\ Len(replayed) = 2
  /\ replayed[2] = <<plugin.cache[1][1], tasks[1].started + 2>>

\* ------------------------------------------------------------------------
\* The timing plugin (plugins/time.py)
\* ------------------------------------------------------------------------
\* number of reference click messages, number of messages handed to
\* process and the last time of the runs of the timing plugin
MaxClicks == 2

MaxTimeCalls == 2

MaxClickTime == 6

\* time.time_ns() when the clock shows t ms
time_ns(t) == t * 1000000

abs(x) == IF x < 0 THEN -x ELSE x

\* int(a / b) for b > 0: the quotient rounded towards zero
int_div(a, b) == IF a >= 0 THEN a \div b ELSE -((-a) \div b)

\* XtalkPlugin_time.__init__ with the given config; loop stands for
\* "self.loop is not None"
XtalkPlugin_time(config) ==
  [name |-> "time",
   CONTROL |-> config.control, DELAY |-> config.delay,
   PLAY_INTERVAL |-> config.play_interval, ACCEPT_RANGE |-> config.accept_range,
   MAX_DIFF |-> config.max_diff, ERROR_EARLY |-> config.error_early,
   ERROR_LATE |-> config.error_late, ERROR_VELOCITY |-> config.error_velocity,
   DROP |-> config.drop, CALIBRATION |-> config.calibration,
   AUTO_CALIBRATION |-> config.auto_calibration,
   enabled |-> TRUE, buffer |-> <<>>, index |-> -1, loop |-> FALSE,
   calib |-> 0, calib_update_cnt |-> 0]

\* get_closest: the first entry of the buffer with the least distance to ref
time_get_closest(self, ref) ==
  CHOOSE i \in 1..Len(self.buffer) :
    /\ \A j \in 1..Len(self.buffer) : abs(self.buffer[i][1] - ref) <= abs(self.buffer[j][1] - ref)
    /\ \A j \in 1..(i - 1) : abs(self.buffer[j][1] - ref) > abs(self.buffer[i][1] - ref)

\* get_neighbour_time; 0 stands for None, which the code does not tell from
\* a time of 0 either ("if not prv")
time_get_neighbour_time(self, index) ==
  LET itime == self.buffer[index][1]
      prv == IF index > 1 THEN self.buffer[index - 1][1] ELSE 0
      nxt == IF index + 1 <= Len(self.buffer) THEN self.buffer[index + 1][1] ELSE 0
  IN IF prv = 0 /\ nxt = 0 THEN 0
     ELSE IF prv /= 0 /\ nxt = 0 THEN prv
     ELSE IF prv = 0 /\ nxt /= 0 THEN nxt
     ELSE IF abs(prv - itime) < abs(nxt - itime) THEN prv
     ELSE nxt

\* check_time at time t with the delay of the command line: ret and diff
\* as returned, the instance afterwards, whether a neighbour was found and
\* 100 * acceptable_diff (the quotient by 100 is a double in the code; the
\* comparison with the integer abs(diff) has the same outcome)
time_check_time(self, t, delay) ==
  LET cnow == time_ns(t) - (self.DELAY + delay + self.CALIBRATION) * 1000000 - self.calib
      closest_ind == time_get_closest(self, cnow)
      ntime == time_get_neighbour_time(self, closest_ind)
      diff == cnow - self.buffer[closest_ind][1]
      range100 == abs(self.buffer[closest_ind][1] - ntime) * self.ACCEPT_RANGE
      max_diff == self.MAX_DIFF * 1000000
      acceptable100 == IF self.MAX_DIFF >= 0 /\ range100 > max_diff * 100
                       THEN max_diff * 100 ELSE range100
      ret == abs(diff) * 100 <= acceptable100
  IN IF ntime = 0
     THEN [ret |-> TRUE, diff |-> 0, self |-> self, neighbour |-> FALSE, acceptable100 |-> 0]
     ELSE [ret |-> ret, diff |-> diff, neighbour |-> TRUE, acceptable100 |-> acceptable100,
           self |-> IF ret /\ self.AUTO_CALIBRATION /\ self.calib_update_cnt < 100
                    THEN [self EXCEPT
                            !.calib = int_div(diff + self.calib_update_cnt * self.calib,
                                              self.calib_update_cnt + 1),
                            !.calib_update_cnt = @ + 1]
                    ELSE self]

\* mutant: the error notes for early and late hits are swapped
time_send_error_swapped(self, msg, diff) ==
  LET velocity == IF self.ERROR_VELOCITY < 0 \/ self.ERROR_VELOCITY > 127
                  THEN msg[3] ELSE self.ERROR_VELOCITY
      note == IF diff > 0 THEN self.ERROR_EARLY ELSE self.ERROR_LATE
  IN << <<159, note, velocity>>, <<143, note, 0>> >>

\* send_error: the messages sent to the click output
time_send_error(self, msg, diff) ==
  LET velocity == IF self.ERROR_VELOCITY < 0 \/ self.ERROR_VELOCITY > 127
                  THEN msg[3] ELSE self.ERROR_VELOCITY
      note == IF diff > 0 THEN self.ERROR_LATE ELSE self.ERROR_EARLY
  IN << <<159, note, velocity>>, <<143, note, 0>> >>

\* process(msg) at time t: the instance afterwards, the yields, the
\* messages sent to the click output and what check_time found
time_process(self, msg, t, delay) ==
  LET s0 == [self EXCEPT !.loop = TRUE]
      unchecked == [called |-> FALSE, ret |-> TRUE, diff |-> 0, neighbour |-> FALSE,
                    acceptable100 |-> 0]
      r == time_check_time(s0, t, delay)
  IN IF ~is_note_on(msg)
     THEN [self |-> s0, yields |-> <<msg>>, oport |-> <<>>, check |-> unchecked]
     ELSE IF msg[2] \in s0.CONTROL
     THEN [self |-> [s0 EXCEPT !.enabled = ~@], yields |-> <<msg>>, oport |-> <<>>,
           check |-> unchecked]
     ELSE IF s0.enabled /\ Len(s0.buffer) > 0
     THEN [self |-> r.self,
           yields |-> IF ~r.ret /\ s0.DROP THEN <<>> ELSE <<msg>>,
           oport |-> IF ~r.ret THEN time_send_error(s0, msg, r.diff) ELSE <<>>,
           check |-> [called |-> TRUE, ret |-> r.ret, diff |-> r.diff,
                      neighbour |-> r.neighbour, acceptable100 |-> r.acceptable100]]
     ELSE [self |-> s0, yields |-> <<msg>>, oport |-> <<>>, check |-> unchecked]

\* the messages handed to process: a hit, the control note and a note-off
TimeMsgs == { <<144, 38, 90>>, <<144, 36, 100>>, <<128, 38, 0>> }

\* the messages of the reference click
ClickMsgs == { <<153, 76, 100>>, <<137, 76, 0>> }

\* plugin configurations, with a click delay of 2 ms; MAX_DIFF is small
\* enough for 100 * max_diff in nanoseconds to stay below 2^31
TimeConfigs ==
  { [control |-> {36}, delay |-> 2, play_interval |-> 1, accept_range |-> 30,
     max_diff |-> 20, error_early |-> 1, error_late |-> 2, error_velocity |-> 127,
     drop |-> FALSE, calibration |-> 0, auto_calibration |-> TRUE],
    [control |-> {36}, delay |-> 2, play_interval |-> 0, accept_range |-> 50,
     max_diff |-> -1, error_early |-> 1, error_late |-> 2, error_velocity |-> -1,
     drop |-> TRUE, calibration |-> 0, auto_calibration |-> FALSE],
    [control |-> {}, delay |-> 2, play_interval |-> 2, accept_range |-> 150,
     max_diff |-> 1, error_early |-> 1, error_late |-> 2, error_velocity |-> 127,
     drop |-> TRUE, calibration |-> -1, auto_calibration |-> FALSE] }

\* res.clicks lists the click note-ons that read_click took, res.others
\* counts the other click messages (not a note-on, or dropped because the
\* loop was not known), res.dropped lists the click note-ons among the
\* dropped, res.pop is the last removal from the buffer
InitTime ==
  /\ idle([defaults EXCEPT !.plugins = <<"time">>, !.delay = 1])
  /\ now = 1
  /\ \E config \in TimeConfigs : plugin = XtalkPlugin_time(config)
  /\ tasks = <<>>
  /\ sent = <<>>
  /\ res = [calls |-> 0, seen |-> <<>>, clicks |-> <<>>, others |-> 0, pop |-> <<>>,
            dropped |-> <<>>]

\* task k sleeps and its sleep is over
due(k) == tasks[k].wake <= now

\* the list without its k-th element
without(l, k) == SubSeq(l, 1, k - 1) \o SubSeq(l, k + 1, Len(l))

\* a click message comes in, one of at most max in a run: read_callback
\* drops it while the loop is not known, otherwise read_click runs up to
\* its first sleep
time_read_callback_of(msg, max) ==
  /\ plugin.name = "time"
  /\ Len(res.clicks) + res.others < max
  /\ LET is_on == is_note_on(msg)
         task == [msg |-> msg, is_on |-> is_on, t |-> now, wake |-> now + plugin.DELAY,
                  pc |-> IF plugin.PLAY_INTERVAL > 0 THEN "play" ELSE "pop"]
     IN IF ~plugin.loop
        THEN /\ res' = [res EXCEPT !.others = @ + 1,
                                   !.dropped = IF is_on THEN Append(@, <<msg, now>>) ELSE @]
             /\ UNCHANGED <<plugin, tasks>>
        ELSE /\ plugin' = IF is_on
                          THEN [plugin EXCEPT !.buffer = Append(@, <<time_ns(now), msg>>)]
                          ELSE plugin
             /\ tasks' = IF plugin.PLAY_INTERVAL > 0 \/ is_on THEN Append(tasks, task) ELSE tasks
             /\ res' = IF is_on THEN [res EXCEPT !.clicks = Append(@, <<msg, now>>)]
                       ELSE [res EXCEPT !.others = @ + 1]
  /\ UNCHANGED <<now, sent>>
  /\ UNCHANGED pipeline_vars

time_read_callback(msg) == time_read_callback_of(msg, MaxClicks)

\* mutant: the index stays 0, every click is played
time_index_stuck(self) == 0

\* "self.index = ( self.index + 1 ) % self.PLAY_INTERVAL"
time_index(self) == (self.index + 1) % self.PLAY_INTERVAL

\* read_click goes on after a sleep: the sleeps of one kind end in the
\* order in which they began
time_read_click(k) ==
  /\ plugin.name = "time"
  /\ k \in 1..Len(tasks)
  /\ due(k)
  /\ \A j \in 1..(k - 1) : tasks[j].pc /= tasks[k].pc
  /\ LET task == tasks[k]
         index == time_index(plugin)
     IN IF task.pc = "play"
        THEN /\ plugin' = IF task.is_on THEN [plugin EXCEPT !.index = index] ELSE plugin
             /\ sent' = IF ~task.is_on \/ index = 0 THEN Append(sent, <<task.msg, now>>) ELSE sent
             /\ tasks' = IF task.is_on
                         THEN [tasks EXCEPT ![k] = [task EXCEPT !.pc = "pop", !.wake = now + plugin.DELAY]]
                         ELSE without(tasks, k)
             /\ UNCHANGED res
        ELSE /\ plugin' = [plugin EXCEPT !.buffer = Tail(@)]
             /\ tasks' = without(tasks, k)
             /\ res' = [res EXCEPT !.pop = <<[entry |-> Head(plugin.buffer),
                                              own |-> <<time_ns(task.t), task.msg>>,
                                              t |-> now]>>]
             /\ UNCHANGED sent
  /\ UNCHANGED now
  /\ UNCHANGED pipeline_vars

\* the dispatcher hands msg to process. res.seen is the call with what it
\* found: enabled, the length of the buffer and of the click output.
time_call(msg) ==
  /\ plugin.name = "time"
  /\ res.calls < MaxTimeCalls
  /\ LET r == time_process(plugin, msg, now, ARGS.delay)
     IN /\ plugin' = r.self
        /\ sent' = sent \o [n \in 1..Len(r.oport) |-> <<r.oport[n], now>>]
        /\ res' = [res EXCEPT !.calls = @ + 1,
                              !.seen = <<[msg |-> msg, t |-> now, yields |-> r.yields,
                                          check |-> r.check, enabled |-> plugin.enabled,
                                          buffer |-> Len(plugin.buffer), from |-> Len(sent),
                                          errors |-> Len(r.oport)]>>]
  /\ UNCHANGED <<now, tasks>>
  /\ UNCHANGED pipeline_vars

\* a millisecond passes, unless a sleep is over
time_tick ==
  /\ plugin.name = "time"
  /\ now < MaxClickTime
  /\ \A k \in 1..Len(tasks) : ~due(k)
  /\ now' = now + 1
  /\ UNCHANGED <<plugin, tasks, sent, res>>
  /\ UNCHANGED pipeline_vars

NextTime ==
  \/ \E msg \in ClickMsgs : time_read_callback(msg)
  \/ \E k \in 1..MaxClicks : time_read_click(k)
  \/ \E msg \in TimeMsgs : time_call(msg)
  \/ time_tick

SpecTime == InitTime /\ [][NextTime]_vars

\* C19: for an enabled plugin and a buffer in which the closest click has a
\* neighbour, a hit is in time iff |diff| <= acceptable: a hit in time is
\* yielded and no error note is sent; a hit out of time makes the plugin
\* send one note-on (0x9F, ERROR_LATE if diff > 0, else ERROR_EARLY) and
\* right after it the note-off (0x8F, same note, velocity 0) to the click
\* output, and the hit is suppressed iff DROP is set.
C19_TimingCheck ==
  (plugin.name = "time" /\ res.seen /= <<>>) =>
    LET c == res.seen[1]
        in_time == abs(c.check.diff) * 100 <= c.check.acceptable100
        note == IF c.check.diff > 0 THEN plugin.ERROR_LATE ELSE plugin.ERROR_EARLY
    IN (sounding(c.msg) /\ c.msg[2] \notin plugin.CONTROL /\ c.enabled /\ c.buffer >= 2) =>
         /\ c.check.called /\ c.check.neighbour
         /\ in_time => (c.yields = <<c.msg>> /\ c.errors = 0)
         /\ ~in_time =>
              /\ c.errors = 2
              /\ sent[c.from + 1][1][1] = 159
              /\ sent[c.from + 1][1][2] = note
              /\ sent[c.from + 1][2] = c.t
              /\ sent[c.from + 2] = << <<143, note, 0>>, c.t >>
              /\ plugin.DROP => c.yields = <<>>
              /\ ~plugin.DROP => c.yields = <<c.msg>>

\* a late hit is answered with the error note and dropped
C19_Witness ==
  /\ plugin.name = "time"
  /\ res.seen /= <<>>
  /\ res.seen[1].buffer >= 2
  /\ res.seen[1].check.called
  /\ res.seen[1].check.diff > 0
  /\ res.seen[1].errors = 2
  /\ res.seen[1].yields = <<>>
  /\ sent[res.seen[1].from + 1][1][2] = plugin.ERROR_LATE

\* the k-th click that read_click took has its entry in the buffer
buffered(k) ==
  \E n \in 1..Len(plugin.buffer) :
    plugin.buffer[n] = <<time_ns(res.clicks[k][2]), res.clicks[k][1]>>

\* C20 (as claimed): every click note-on stays in the buffer for
\* 2 x DELAY ms after its arrival and is then removed, for every value of
\* PLAY_INTERVAL; the entry removed at that moment is the click's own.
C20_ClickLifetime ==
  plugin.name = "time" =>
    /\ \A k \in 1..Len(res.clicks) :
         /\ now < res.clicks[k][2] + 2 * plugin.DELAY => buffered(k)
         /\ now > res.clicks[k][2] + 2 * plugin.DELAY => ~buffered(k)
    /\ res.pop /= <<>> =>
         /\ res.pop[1].entry = res.pop[1].own
         /\ time_ns(res.pop[1].t) = res.pop[1].own[1] + time_ns(2 * plugin.DELAY)

\* ------------------------------------------------------------------------
\* plugins/replace.py: XtalkPlugin_replace
\* A rule of config["replace"] is the record of its JSON keys; the plugin
\* writes rule["enabled"], so the rules are part of the instance. A rule is
\* referred to by its position in the list (from 1; the source counts
\* from 0).
\* ------------------------------------------------------------------------
\* calls of process in one run
MaxReplaceCalls == 3
\* lines the TCP clients send in one run
MaxLines == 2
\* TCP clients that connect in one run
MaxClients == 1

\* the None of self.replacements: what disable stores and what get returns
\* for a note without entry
no_note == -1

\* the notes of the rules and messages below
ReplaceNotes == {35, 36, 37, 38, 40, 41, 42}

is_enabled(replacement) == replacement.enabled

replace_enable(self, index, force) ==
  LET replacement == self.config.replace[index]
  IN IF force \/ ~is_enabled(replacement)
     THEN [self EXCEPT
             !.replacements = [note \in ReplaceNotes |->
                                 IF note \in replacement.from THEN replacement.to
                                 ELSE self.replacements[note]],
             !.config.replace[index].enabled = TRUE]
     ELSE self

replace_disable(self, index) ==
  LET replacement == self.config.replace[index]
  IN IF is_enabled(replacement)
     THEN [self EXCEPT
             !.replacements = [note \in ReplaceNotes |->
                                 IF note \in replacement.from THEN no_note
                                 ELSE self.replacements[note]],
             !.config.replace[index].enabled = FALSE]
     ELSE self

\* "for rpl in self.config.get("replace")" from rule i on
RECURSIVE replace_disable_from(_, _)
replace_disable_from(self, i) ==
  IF i > Len(self.config.replace) THEN self
  ELSE replace_disable_from(replace_disable(self, i), i + 1)

\* mutant: nothing is disabled
replace_disable_none(self) == self

replace_disable_all(self) == replace_disable_from(self, 1)

replace_toggle(self, index) ==
  IF is_enabled(self.config.replace[index])
  THEN replace_disable(self, index)
  ELSE replace_enable(self, index, FALSE)

\* the constructor's loop over enumerate(config["replace"]) from rule i on
RECURSIVE replace_init_from(_, _)
replace_init_from(self, i) ==
  IF i > Len(self.config.replace) THEN self
  ELSE replace_init_from(
         IF is_enabled(self.config.replace[i]) THEN replace_enable(self, i, TRUE) ELSE self,
         i + 1)

XtalkPlugin_replace(config) ==
  replace_init_from(
    [name |-> "replace",
     config |-> config,
     replacements |-> [note \in ReplaceNotes |-> no_note],
     triggers |-> [note \in ReplaceNotes |->
                     { index \in 1..Len(config.replace) :
                         note \in config.replace[index].enable \cup config.replace[index].disable }],
     cmd_index |-> 0,
     server |-> config.server],
    1)

\* A line is the list of its tokens: the words and separators a client
\* sent. The tokens of the model:
\*   "enable" "disable" "toggle" "unique"  the command words
\*   " "  a space     "\n"  line feed     "\r"  carriage return
\*   "0xff"  a byte that is not UTF-8
\*   any other word: an ID
\* The empty list is b'', which readline returns at the end of the stream.
commands == {"enable", "disable", "toggle", "unique"}

\* line.decode(encoding="utf-8", errors="strict") raises UnicodeError
decode_fails(line) == \E k \in 1..Len(line) : line[k] = "0xff"

\* re.compile('^(enable|disable|toggle|unique) (.*)$').match(line): <<>> for
\* no match, else <<group(1), group(2)>> with group(2) the list of tokens.
\* "." matches no line feed, and "$" matches at the end of the line or
\* before a line feed that ends it.
pattern_match(line) ==
  LET body == IF line /= <<>> /\ line[Len(line)] = "\n"
              THEN SubSeq(line, 1, Len(line) - 1) ELSE line
  IN IF /\ Len(body) >= 2
        /\ body[1] \in commands
        /\ body[2] = " "
        /\ \A k \in 3..Len(body) : body[k] /= "\n"
     THEN << body[1], SubSeq(body, 3, Len(body)) >>
     ELSE <<>>

\* str(replacement.get("id"))
id_of(replacement) == << replacement.id >>

\* find_replacements: the rules it yields, in order, and the instance it
\* leaves (next and previous move cmd_index)
replace_find_replacements(self, id_str) ==
  LET replacements == self.config.replace
      n == Len(replacements)
  IN IF n = 0 THEN [self |-> self, repls |-> <<>>]
     ELSE IF id_str = <<"next">>
     THEN [self |-> [self EXCEPT !.cmd_index = (self.cmd_index + 1) % n],
           repls |-> << ((self.cmd_index + 1) % n) + 1 >>]
     ELSE IF id_str = <<"previous">>
     THEN [self |-> [self EXCEPT !.cmd_index = (self.cmd_index - 1) % n],
           repls |-> << ((self.cmd_index - 1) % n) + 1 >>]
     ELSE [self |-> self,
           repls |-> SelectSeq([i \in 1..n |-> i],
                               LAMBDA i : id_str = id_of(replacements[i]))]

\* "for repl in repls: ..." of handle_client; cmd "unique" stands for
\* enable(repl, force=True)
RECURSIVE replace_each(_, _, _)
replace_each(self, cmd, repls) ==
  IF repls = <<>> THEN self
  ELSE replace_each(
         IF cmd = "enable" THEN replace_enable(self, Head(repls), FALSE)
         ELSE IF cmd = "disable" THEN replace_disable(self, Head(repls))
         ELSE IF cmd = "toggle" THEN replace_toggle(self, Head(repls))
         ELSE replace_enable(self, Head(repls), TRUE),
         cmd, Tail(repls))

\* one round of the loop of handle_client for the line readline returned:
\* the instance it leaves and whether the loop goes on. repls is a
\* generator object, so "if not repls" is never true and the branch of the
\* command runs also when no rule is yielded; the body of the generator
\* runs in the loop "for repl in repls", after disable_all.
replace_handle_line(self, line) ==
  IF line = <<>> THEN [self |-> self, open |-> FALSE]
  ELSE IF decode_fails(line) THEN [self |-> self, open |-> TRUE]
  ELSE
    LET match == pattern_match(line)
    IN IF match = <<>> THEN [self |-> self, open |-> TRUE]
       ELSE
         LET cmd == match[1]
             start == IF cmd = "unique" THEN replace_disable_all(self) ELSE self
             found == replace_find_replacements(start, match[2])
         IN [self |-> replace_each(found.self, cmd, found.repls), open |-> TRUE]

\* "for index in self.triggers.get(note, set())": a set of small integers
\* is iterated in ascending order
RECURSIVE replace_triggers(_, _, _)
replace_triggers(self, note, indices) ==
  IF indices = {} THEN self
  ELSE
    LET index == CHOOSE i \in indices : \A j \in indices : i <= j
        replacement == self.config.replace[index]
        s == IF note \in replacement.enable /\ note \in replacement.disable
             THEN replace_toggle(self, index)
             ELSE IF note \in replacement.enable
             THEN replace_enable(self, index, FALSE)
             ELSE replace_disable(self, index)
    IN replace_triggers(s, note, indices \ {index})

\* "self.replacements.get(note) or note": None and 0 give the note itself
replace_note_to(self, note) ==
  IF self.replacements[note] = no_note \/ self.replacements[note] = 0
  THEN note ELSE self.replacements[note]

\* process(msg): the instance it leaves and the messages it yields
replace_process(self, msg) ==
  IF is_note_on(msg) \/ is_note_mod(msg)
  THEN LET note == msg[2]
           s == IF is_note_on(msg) THEN replace_triggers(self, note, self.triggers[note])
                ELSE self
       IN [self |-> s, yields |-> << <<msg[1], replace_note_to(s, note), msg[3]>> >>]
  ELSE [self |-> self, yields |-> << msg >>]

\* the messages handed to the plugin: hits, a note-off and an aftertouch of
\* note 35, the trigger notes 40, 41 and 42, and a control change
ReplaceMsgs ==
  { <<144, 35, 100>>, <<128, 35, 0>>, <<160, 35, 64>>,
    <<144, 40, 100>>, <<144, 41, 100>>, <<144, 42, 100>>, <<176, 7, 64>> }

replace_rule(id, from, to, enable, disable, enabled) ==
  [id |-> id, from |-> from, to |-> to, enable |-> enable, disable |-> disable,
   enabled |-> enabled]

ReplaceConfigs ==
  { \* snare 35 to 38 on demand, 35 and 36 to 37 from the start
    [server |-> TRUE,
     replace |-> << replace_rule("a", {35}, 38, {40}, {41}, FALSE),
                    replace_rule("b", {35, 36}, 37, {42}, {42}, TRUE) >>],
    \* two rules share the ID "a"
    [server |-> TRUE,
     replace |-> << replace_rule("a", {35}, 38, {}, {}, TRUE),
                    replace_rule("b", {36}, 37, {40}, {}, TRUE),
                    replace_rule("a", {36}, 38, {}, {41}, FALSE) >>],
    \* no server: triggers only
    [server |-> FALSE,
     replace |-> << replace_rule("a", {35}, 38, {40}, {41}, FALSE) >>] }

\* the lines the clients send
ReplaceLines ==
  { <<"enable", " ", "a", "\n">>, <<"disable", " ", "a", "\n">>,
    <<"toggle", " ", "b", "\n">>, <<"unique", " ", "a", "\n">>,
    <<"unique", " ", "b">>, <<"toggle", " ", "next", "\n">>,
    <<"unique", " ", "previous", "\n">>,
    <<"enable", " ", "zz", "\n">>, <<"disable", " ", "zz", "\n">>,
    <<"toggle", " ", "zz", "\n">>, <<"unique", " ", "zz", "\n">>,
    <<"unique", " ", "a", "\r", "\n">>,
    <<"unique", "\n">>, <<"0xff", "\n">>,
    <<>> }

\* res of the runs of the replace plugin: on[f] is the note the last
\* note-on with data1 = f left process with (no_note before the first);
\* call and line describe the step just taken, if it was a call of process
\* or a line of a client
no_replace_res ==
  [calls |-> 0, lines |-> 0, on |-> [f \in ReplaceNotes |-> no_note],
   call |-> <<>>, line |-> <<>>]

InitReplace ==
  /\ idle([defaults EXCEPT !.plugins = <<"replace">>])
  /\ now = 0
  /\ \E config \in ReplaceConfigs : plugin = XtalkPlugin_replace(config)
  /\ tasks = <<>>
  /\ sent = <<>>
  /\ res = no_replace_res

\* the dispatcher hands msg to process
replace_call(msg) ==
  /\ plugin.name = "replace"
  /\ res.calls < MaxReplaceCalls
  /\ LET r == replace_process(plugin, msg)
         out == r.yields[1]
     IN /\ plugin' = r.self
        /\ res' = [res EXCEPT
                     !.calls = @ + 1,
                     !.on = IF is_note_on(msg) THEN [@ EXCEPT ![msg[2]] = out[2]] ELSE @,
                     !.call = << [msg |-> msg, out |-> out, on |-> res.on] >>,
                     !.line = <<>>]
  /\ UNCHANGED <<now, tasks, sent>>
  /\ UNCHANGED pipeline_vars

\* start_server: a client connects and handle_client waits in readline
replace_connect ==
  /\ plugin.name = "replace"
  /\ plugin.server
  /\ Len(tasks) < MaxClients
  /\ tasks' = Append(tasks, [func |-> "handle_client", pc |-> "readline"])
  /\ res' = [res EXCEPT !.call = <<>>, !.line = <<>>]
  /\ UNCHANGED <<now, plugin, sent>>
  /\ UNCHANGED pipeline_vars

\* readline of client c returns line
replace_line(c, line) ==
  /\ plugin.name = "replace"
  /\ res.lines < MaxLines
  /\ tasks[c].pc = "readline"
  /\ LET r == replace_handle_line(plugin, line)
     IN /\ plugin' = r.self
        /\ tasks' = [tasks EXCEPT ![c].pc = IF r.open THEN "readline" ELSE "done"]
        /\ res' = [res EXCEPT
                     !.lines = @ + 1,
                     !.call = <<>>,
                     !.line = << [line |-> line, before |-> plugin, client |-> c] >>]
  /\ UNCHANGED <<now, sent>>
  /\ UNCHANGED pipeline_vars

NextReplace ==
  \/ \E msg \in ReplaceMsgs : replace_call(msg)
  \/ replace_connect
  \/ \E c \in 1..Len(tasks), line \in ReplaceLines : replace_line(c, line)

SpecReplace == InitReplace /\ [][NextReplace]_vars

\* C21 (as claimed): a note-off or aftertouch leaves process with the same
\* note as the last note-on of the same original data1 did, also when a
\* trigger or a TCP command changed the rules between the two.
C21_MatchedPair ==
  \A k \in 1..Len(res.call) :
    LET c == res.call[k]
    IN (is_note_mod(c.msg) /\ c.on[c.msg[2]] /= no_note)
         => c.out[2] = c.on[c.msg[2]]

\* the IDs of the rules of the instance
rule_ids(self) == { self.config.replace[i].id : i \in 1..Len(self.config.replace) }

\* line is "<cmd> <id>" with or without the line feed
command_line(line, cmd, id) == line \in { <<cmd, " ", id, "\n">>, <<cmd, " ", id>> }

\* line is a command for an existing ID, or for next or previous
names_rule(self, line) ==
  \E cmd \in commands, id \in rule_ids(self) \cup {"next", "previous"} :
    command_line(line, cmd, id)

\* C22 (as claimed): a line that fails to parse or names an ID matching no
\* rule leaves the enabled flags of all rules and the replacements table as
\* they were, for each of enable, disable, toggle and unique, and the
\* connection stays open.
C22_InvalidLineSkipped ==
  \A k \in 1..Len(res.line) :
    LET l == res.line[k]
    IN (l.line /= <<>> /\ ~names_rule(l.before, l.line)) =>
         /\ plugin.config.replace = l.before.config.replace
         /\ plugin.replacements = l.before.replacements
         /\ tasks[l.client].pc = "readline"

\* C23: after "unique <id>" with an existing id the rules with that id are
\* enabled and every other rule is disabled, whatever the state before, and
\* the replacements table maps the from notes of the named rules to their
\* to (the last named rule's, where two share a note) and no other note.
C23_UniqueExclusive ==
  \A k \in 1..Len(res.line) :
    LET l == res.line[k]
        rules == plugin.config.replace
    IN \A id \in rule_ids(l.before) :
         command_line(l.line, "unique", id) =>
           LET named == { i \in 1..Len(rules) : rules[i].id = id }
           IN /\ \A i \in 1..Len(rules) : rules[i].enabled <=> i \in named
              /\ \A note \in ReplaceNotes :
                   LET covering == { i \in named : note \in rules[i].from }
                   IN plugin.replacements[note] =
                        IF covering = {} THEN no_note
                        ELSE rules[CHOOSE i \in covering : \A j \in covering : j <= i].to

\* C23 witness: "unique a" with two rules "a"; rule b was enabled and
\* mapped 36, one rule a was disabled; now both rules a are enabled and 36
\* goes to 38
C23_Witness ==
  /\ Len(res.line) = 1
  /\ res.line[1].line = <<"unique", " ", "a", "\n">>
  /\ Len(plugin.config.replace) = 3
  /\ res.line[1].before.config.replace[2].enabled
  /\ ~res.line[1].before.config.replace[3].enabled
  /\ res.line[1].before.replacements[36] = 37
  /\ ~plugin.config.replace[2].enabled
  /\ plugin.config.replace[3].enabled
  /\ plugin.replacements[36] = 38
  /\ plugin.replacements[35] = 38

\* ------------------------------------------------------------------------
\* xtalk.py: FilterPolicy.__init__ on a policy path
\* A path is a file, [isfile |-> TRUE, content |-> json], or a directory,
\* [isfile |-> FALSE, entries |-> the entries in the order os.scandir
\* returns them]. The order of a directory listing is the file system's, so
\* the runs take the entries in every order. An entry has a name (the list
\* of its code points), is_file and the JSON content. A JSON value is
\* [type |-> "array", items |-> rules] or [type |-> "object", value |-> rule].
\* FilterPolicy(args) above is the case of one file that holds an array.
\* ------------------------------------------------------------------------
\* '.json'
dot_json == <<46, 106, 115, 111, 110>>

\* name.endswith('.json')
endswith(name, end) ==
  Len(name) >= Len(end) /\ SubSeq(name, Len(name) - Len(end) + 1, Len(name)) = end

\* add_policies(json.load(fp)): "for policy in policies" goes through the
\* items of an array and through the keys of an object; add_policy of a key,
\* a str, raises AttributeError at policy.get, which "except TypeError"
\* does not catch
add_policies_of(policies, content, args) ==
  IF content.type = "array"
  THEN [policies |-> add_policies(policies, content.items, args), raises |-> ""]
  ELSE IF DOMAIN content.value = {}
  THEN [policies |-> policies, raises |-> ""]
  ELSE [policies |-> policies, raises |-> "AttributeError"]

\* "for entry in it" of the constructor, from the entries given
RECURSIVE scandir_load(_, _, _)
scandir_load(policies, entries, args) ==
  IF entries = <<>> THEN [policies |-> policies, raises |-> ""]
  ELSE
    LET entry == Head(entries)
    IN IF endswith(entry.name, dot_json) /\ entry.is_file
       THEN LET r == add_policies_of(policies, entry.content, args)
            IN IF r.raises /= "" THEN r
               ELSE scandir_load(r.policies, Tail(entries), args)
       ELSE scandir_load(policies, Tail(entries), args)

\* FilterPolicy(path): the table, and the exception that leaves the
\* constructor
FilterPolicy_path(path, args) ==
  LET loaded == IF path.isfile
                THEN add_policies_of(no_policies, path.content, args)
                ELSE scandir_load(no_policies, path.entries, args)
  IN IF loaded.raises /= "" THEN loaded
     ELSE IF \E note \in Data1 : loaded.policies[note] /= <<>>
     THEN [policies |-> add_policy(loaded.policies, cli_policy(0), args), raises |-> ""]
     ELSE [policies |-> add_policy(loaded.policies, cli_policy(-1), args), raises |-> ""]

array(items) == [type |-> "array", items |-> items]

object(value) == [type |-> "object", value |-> value]

\* the rules of the policy files
LoadRules ==
  { rule({40}, {38}, 50, -1, FALSE, TRUE, TRUE),
    rule({40}, {38}, 10, -1, FALSE, TRUE, FALSE),
    rule({}, {}, -1, 25, FALSE, TRUE, FALSE),
    rule({40}, {}, 0, 25, TRUE, FALSE, FALSE) }

\* a.json, B.json and notes.txt
LoadNames ==
  { <<97>> \o dot_json, <<66>> \o dot_json, <<110, 111, 116, 101, 115, 46, 116, 120, 116>> }

\* a file with one rule object, with an array of up to two rules; a
\* directory of two files with one rule each, listed in either order; a
\* directory with a rule object; a directory with a sub-directory x.json
LoadPaths ==
  { [isfile |-> TRUE, content |-> object(r)] : r \in LoadRules }
  \cup { [isfile |-> TRUE, content |-> array(<<r>>)] : r \in LoadRules }
  \cup { [isfile |-> TRUE, content |-> array(<<r, q>>)] : r \in LoadRules, q \in LoadRules }
  \cup { [isfile |-> TRUE, content |-> array(<<>>)] }
  \cup { [isfile |-> FALSE,
          entries |-> << [name |-> n[1], is_file |-> TRUE, content |-> array(<<r>>)],
                         [name |-> n[2], is_file |-> TRUE, content |-> array(<<q>>)] >>] :
           n \in { p \in LoadNames \X LoadNames : p[1] /= p[2] },
           r \in LoadRules, q \in LoadRules }
  \cup { [isfile |-> FALSE,
          entries |-> << [name |-> <<97>> \o dot_json, is_file |-> TRUE, content |-> object(r)] >>] :
           r \in LoadRules }
  \cup { [isfile |-> FALSE,
          entries |-> << [name |-> <<120>> \o dot_json, is_file |-> FALSE, content |-> array(<<>>)],
                         [name |-> <<97>> \o dot_json, is_file |-> TRUE, content |-> array(<<r>>)] >>] :
           r \in LoadRules }

\* main before "POLICY = FilterPolicy(ARGS.policy)"
InitLoad ==
  /\ \E path \in LoadPaths, minimum \in {0, 25} :
       ARGS = [defaults EXCEPT !.policy = path, !.minimum = minimum]
  /\ POLICY = no_policies
  /\ PLUGINS = <<>>
  /\ HISTORY = MessageHistory
  /\ DISABLED = MessageHistory
  /\ QUEUE = <<>>
  /\ cache = <<>>
  /\ timers = <<>>
  /\ midiout = <<>>
  /\ pc = "main"
  /\ cur = <<>>
  /\ wake = 0
  /\ now = 0
  /\ arrivals = <<>>
  /\ logged = 0
  /\ evald = NoEval
  /\ plugin = no_plugin
  /\ tasks = <<>>
  /\ sent = <<>>
  /\ res = no_res

\* POLICY = FilterPolicy(ARGS.policy); an exception ends the program
main_FilterPolicy ==
  /\ pc = "main"
  /\ LET r == FilterPolicy_path(ARGS.policy, ARGS)
     IN /\ POLICY' = r.policies
        /\ pc' = IF r.raises = "" THEN "get" ELSE "crashed"
  /\ UNCHANGED <<ARGS, PLUGINS, HISTORY, DISABLED, QUEUE, cache, timers, midiout,
                 cur, wake, now, arrivals, logged, evald>>
  /\ UNCHANGED plugin_vars

NextLoad == main_FilterPolicy

SpecLoad == InitLoad /\ [][NextLoad]_vars

\* C24 (as claimed): loading a policy file whose content is a single rule
\* object succeeds and gives the table of the file with the one-element
\* array of that rule.
C24_SingleObjectFile ==
  (pc /= "main" /\ ARGS.policy.isfile /\ ARGS.policy.content.type = "object") =>
    /\ pc = "get"
    /\ POLICY = FilterPolicy_path(
                  [isfile |-> TRUE, content |-> array(<< ARGS.policy.content.value >>)],
                  ARGS).policies

\* name a comes before name b in code point order
RECURSIVE name_before(_, _)
name_before(a, b) ==
  IF b = <<>> THEN FALSE
  ELSE IF a = <<>> THEN TRUE
  ELSE IF Head(a) /= Head(b) THEN Head(a) < Head(b)
  ELSE name_before(Tail(a), Tail(b))

\* the entries in ascending order of their names
RECURSIVE ascending(_)
ascending(entries) ==
  IF entries = <<>> THEN <<>>
  ELSE LET first == CHOOSE i \in 1..Len(entries) :
                      \A j \in 1..Len(entries) :
                        j /= i => name_before(entries[i].name, entries[j].name)
       IN << entries[first] >>
            \o ascending(SubSeq(entries, 1, first - 1) \o SubSeq(entries, first + 1, Len(entries)))

\* C25 (as claimed): for a directory the rules of its .json files are
\* appended in case-sensitive ascending filename order, so the table is the
\* same for every order in which the listing returns the files.
C25_DirectoryOrder ==
  (pc = "get" /\ ~ARGS.policy.isfile) =>
    POLICY = FilterPolicy_path(
               [isfile |-> FALSE, entries |-> ascending(ARGS.policy.entries)], ARGS).policies

\* ------------------------------------------------------------------------
\* Classification of the arrivals, under every dtypes setting
\* ------------------------------------------------------------------------
ClassifyConfigs ==
  { [defaults EXCEPT !.dtypes = dtypes, !.before = before] :
      dtypes \in {"none", "note_off", "aftertouch", "any"}, before \in BOOLEAN }

\* a hit, a note-on with velocity 0, a note-off, an aftertouch and a control
\* change
ClassifyMsgs ==
  { <<144, 40, 56>>, <<144, 40, 0>>, <<128, 38, 0>>, <<160, 40, 127>>, <<176, 7, 64>> }

InitClassify ==
  /\ \E args \in ClassifyConfigs : idle(args)
  /\ now = 0
  /\ plugin = no_plugin
  /\ tasks = <<>>
  /\ sent = <<>>
  /\ res = no_res

NextClassify ==
  \/ \E msg \in ClassifyMsgs : read_in(msg)
  \/ write_out_get
  \/ write_out_handle
  \/ cleanup_note_on
  \/ cleanup_disabled

SpecClassify == InitClassify /\ [][NextClassify]_vars

\* h with msg appended to the bucket of its data1
inserted(h, msg) ==
  [note \in DOMAIN h |-> IF note = msg[2] THEN h[note] \o <<msg>> ELSE h[note]]

\* C26: an arrival is inserted in at most one history: a sounding note-on in
\* HISTORY only, otherwise a disable event under dtypes in DISABLED only,
\* every other message in neither; and the dispatcher schedules a HISTORY
\* cleanup for exactly the messages inserted in HISTORY and a DISABLED
\* cleanup for exactly those inserted in DISABLED.
C26_OneHistoryPerArrival ==
  [][ /\ Len(arrivals') > Len(arrivals) =>
           LET msg == arrivals'[Len(arrivals')][1]
           IN /\ HISTORY' = IF sounding(msg) THEN inserted(HISTORY, msg) ELSE HISTORY
              /\ DISABLED' = IF ~sounding(msg) /\ disable_event(msg)
                             THEN inserted(DISABLED, msg) ELSE DISABLED
      /\ (pc = "sleep" /\ pc' /= "sleep") =>
           LET msg == cur[1]
           IN timers' =
                IF sounding(msg)
                THEN Append(timers, [func |-> "cleanup_note_on", msg |-> msg,
                                     when |-> now + ARGS.history])
                ELSE IF disable_event(msg)
                THEN Append(timers, [func |-> "cleanup_disabled", msg |-> msg,
                                     when |-> now + ARGS.history])
                ELSE timers ]_vars

\* C26 witness: with dtypes note_off a note-on with velocity 0 is stored in
\* DISABLED alone and its DISABLED cleanup is scheduled, while an aftertouch
\* that arrived is in neither history
C26_Witness ==
  /\ ARGS.dtypes = "note_off"
  /\ DISABLED[40] = << <<144, 40, 0>> >>
  /\ HISTORY[40] = <<>>
  /\ \E k \in 1..Len(arrivals) : arrivals[k][1] = <<160, 40, 127>>
  /\ \E k \in 1..Len(timers) :
       timers[k].func = "cleanup_disabled" /\ timers[k].msg = <<144, 40, 0>>

\* ------------------------------------------------------------------------
\* Histories and their cleanups
\* ------------------------------------------------------------------------
\* the pending cleanups of function func for a message equal to msg
pending(func, msg) ==
  Cardinality({ k \in 1..Len(timers) : timers[k].func = func /\ timers[k].msg = msg })

\* no rule of the note consumes disable events
keeps_disabled(note) ==
  \A i \in 1..Len(POLICY[note]) : POLICY[note][i].multi_disable

\* C27 (as claimed): when the dispatcher evaluates blocks(msg), msg itself
\* and every note-on and disable event that arrived before msg and whose
\* cleanup has not fired are in HISTORY and DISABLED.
C27_EarlierEventsVisible ==
  evald.called =>
    /\ occurrences(evald.HISTORY[evald.msg[2]], evald.msg) >= 1
    /\ \A k \in 1..Len(timers) :
         LET t == timers[k]
             h == IF t.func = "cleanup_note_on" THEN evald.HISTORY ELSE evald.DISABLED
         IN occurrences(h[t.msg[2]], t.msg) >= pending(t.func, t.msg)

\* C27 (amended): when the dispatcher evaluates blocks(msg), msg itself and
\* every note-on that arrived before msg and whose cleanup has not fired
\* are in HISTORY, and so is in DISABLED every such disable event of a note
\* none of whose rules has multi_disable = false; the disable events that
\* blocks consumed for such a rule are missing from DISABLED before their
\* cleanup fires.
C27_UnconsumedEventsVisible ==
  evald.called =>
    /\ occurrences(evald.HISTORY[evald.msg[2]], evald.msg) >= 1
    /\ \A k \in 1..Len(timers) :
         LET t == timers[k]
         IN /\ t.func = "cleanup_note_on" =>
                 occurrences(evald.HISTORY[t.msg[2]], t.msg) >= pending(t.func, t.msg)
            /\ (t.func = "cleanup_disabled" /\ keeps_disabled(t.msg[2])) =>
                 occurrences(evald.DISABLED[t.msg[2]], t.msg) >= pending(t.func, t.msg)

\* C27 witness: blocks is called for the second of two equal hits while the
\* cleanup of the first and of a disable event are pending and a later
\* arrival is queued already
C27_Witness ==
  /\ evald.called
  /\ pending("cleanup_note_on", evald.msg) = 2
  /\ \E k \in 1..Len(timers) : timers[k].func = "cleanup_disabled"
  /\ Len(evald.HISTORY[evald.msg[2]]) = 2
  /\ keeps_disabled(40)
  /\ evald.DISABLED[40] /= <<>>

\* the history a cleanup works on
history_of(func, h, d) == IF func = "cleanup_note_on" THEN h ELSE d

\* the cleanup t finds a message equal to its own among before and removes
\* exactly one
removes_one(t, before, after) ==
  /\ occurrences(before[t.msg[2]], t.msg) >= 1
  /\ occurrences(after[t.msg[2]], t.msg) = occurrences(before[t.msg[2]], t.msg) - 1
  /\ Len(after[t.msg[2]]) = Len(before[t.msg[2]]) - 1
  /\ \A note \in Data1 \ {t.msg[2]} : after[note] = before[note]

\* C28 (as claimed): every cleanup that fires finds a message equal to its
\* own in its history and removes exactly one, for every policy table,
\* rules with multi_disable = false included.
C28_CleanupFindsMatch ==
  [][ Len(timers') < Len(timers) =>
        removes_one(Head(timers),
                    history_of(Head(timers).func, HISTORY, DISABLED),
                    history_of(Head(timers).func, HISTORY', DISABLED')) ]_vars

\* C28 (amended): every HISTORY cleanup that fires finds a message equal to
\* its own and removes exactly one, and so does every DISABLED cleanup of a
\* note none of whose rules has multi_disable = false. Where blocks
\* consumed disable events, a DISABLED cleanup removes one equal message if
\* one is stored and nothing otherwise.
C28_CleanupRemovesOne ==
  [][ Len(timers') < Len(timers) =>
        LET t == Head(timers)
            before == history_of(t.func, HISTORY, DISABLED)
            after == history_of(t.func, HISTORY', DISABLED')
        IN /\ (t.func = "cleanup_note_on" \/ keeps_disabled(t.msg[2]))
                => removes_one(t, before, after)
           /\ occurrences(before[t.msg[2]], t.msg) >= 1 => removes_one(t, before, after)
           /\ occurrences(before[t.msg[2]], t.msg) = 0 => after = before
           /\ t.func = "cleanup_note_on" => DISABLED' = DISABLED
           /\ t.func = "cleanup_disabled" => HISTORY' = HISTORY ]_vars

\* C28 witness: the cleanup of the first of two equal hits has fired and
\* one of them is left, with the cleanup of the second pending
C28_Witness ==
  /\ Len(arrivals) = 3
  /\ arrivals[1][1] = arrivals[2][1]
  /\ is_note_on(arrivals[1][1])
  /\ HISTORY[arrivals[1][1][2]] = << arrivals[1][1] >>
  /\ Len(timers) = 1
  /\ timers[1].msg = arrivals[1][1]
  /\ QUEUE /= <<>>

\* C29: a rule evaluated while no message of its cause notes is in HISTORY,
\* or with an empty cause and threshold 0, does not block through the
\* velocity check: it blocks only if the velocity is below its minimum or,
\* with check_disable, a disable event of the note is stored, and otherwise
\* the next rule is evaluated.
C29_NoEvidenceNoBlock ==
  evald.called =>
    \A i \in 1..evald.bpolicy.evaluated :
      LET policy == evald_policies[i]
      IN cause_velocities(evald.HISTORY, policy.cause) = {} =>
           /\ evald.bpolicy.policy = i =>
                \/ evald.msg[3] < policy.minimum
                \/ policy.check_disable
                     /\ disabled_at(evald_policies, i, evald.msg, evald.DISABLED)
           /\ evald.bpolicy.policy /= i =>
                \/ evald.bpolicy.evaluated > i
                \/ i = Len(evald_policies) /\ evald.bpolicy.policy = 0

\* C29 witness: a weak hit of note 40 is evaluated against a rule with cause
\* 38 while a louder hit of note 40, but none of note 38, is in HISTORY; the
\* rule does not block and the appended rule is evaluated
C29_Witness ==
  /\ evald.called
  /\ ARGS.policy = file_only_self
  /\ evald.msg = <<144, 40, 20>>
  /\ evald.HISTORY[38] = <<>>
  /\ \E k \in 1..Len(evald.HISTORY[40]) : evald.HISTORY[40][k] = <<144, 40, 56>>
  /\ evald.bpolicy.policy = 0
  /\ evald.bpolicy.evaluated = 2

\* ------------------------------------------------------------------------
\* The pipeline with a plugin that writes to the messages it is handed
\* ------------------------------------------------------------------------
CopyConfigs ==
  { [defaults EXCEPT !.plugins = <<"amplify">>],
    [defaults EXCEPT !.plugins = <<"twice", "amplify">>, !.before = TRUE],
    [defaults EXCEPT !.plugins = <<"amplify", "notes_only">>, !.dtypes = "any",
                     !.policy = file_siblings] }

\* a weak hit of the amplified note 40, a loud hit of note 38, an aftertouch
\* and a control change; no message has the bytes amplify leaves
CopyMsgs == { <<144, 40, 20>>, <<144, 38, 100>>, <<160, 40, 127>>, <<176, 7, 64>> }

InitCopy ==
  /\ \E args \in CopyConfigs : idle(args)
  /\ now = 0
  /\ plugin = no_plugin
  /\ tasks = <<>>
  /\ sent = <<>>
  /\ res = no_res

NextCopy ==
  \/ \E msg \in CopyMsgs : read_in(msg)
  \/ write_out_get
  \/ write_out_handle
  \/ cleanup_note_on
  \/ cleanup_disabled

SpecCopy == InitCopy /\ [][NextCopy]_vars

\* the messages that arrived, as they arrived
arrived == { arrivals[j][1] : j \in 1..Len(arrivals) }

\* C30: the plugins get copies of the dispatched messages: what a plugin
\* writes to a message changes no message stored in HISTORY or DISABLED, so
\* both hold the bytes that arrived, in the bucket of their data1, a
\* dispatcher step whose batch went through the plugins leaves HISTORY as
\* it was, and every pending cleanup has the bytes of the arrival, which
\* for a note-on are still stored.
C30_PluginsGetCopies ==
  /\ \A note \in Data1 :
       /\ \A k \in 1..Len(HISTORY[note]) :
            HISTORY[note][k] \in arrived /\ HISTORY[note][k][2] = note
       /\ \A k \in 1..Len(DISABLED[note]) :
            DISABLED[note][k] \in arrived /\ DISABLED[note][k][2] = note
  /\ \A k \in 1..Len(timers) :
       /\ timers[k].msg \in arrived
       /\ timers[k].func = "cleanup_note_on" =>
            occurrences(HISTORY[timers[k].msg[2]], timers[k].msg)
              >= pending("cleanup_note_on", timers[k].msg)
  /\ (evald.msg /= <<>> /\ evald.trace /= <<>>) =>
       /\ HISTORY = evald.HISTORY
       /\ DISABLED = evald.bpolicy.DISABLED

\* C30 witness: amplify has written velocity 60 to the hit 40/20, which was
\* sent with it, while HISTORY and the pending cleanup hold 40/20
C30_Witness ==
  /\ evald.called
  /\ evald.msg = <<144, 40, 20>>
  /\ evald.pmsgs /= <<>>
  /\ evald.pmsgs[Len(evald.pmsgs)] = <<144, 40, 60>>
  /\ midiout /= <<>>
  /\ midiout[Len(midiout)] = <<144, 40, 60>>
  /\ HISTORY[40] = << <<144, 40, 20>> >>
  /\ timers /= <<>>
  /\ timers[Len(timers)].msg = <<144, 40, 20>>

\* ------------------------------------------------------------------------
\* The choke plugin: the timeout
\* ------------------------------------------------------------------------
\* msg is a choke indicator for the cymbal hit held in self.last
indicates(self, msg) ==
  /\ self.last /= <<>>
  /\ sounding(msg)
  /\ msg[3] >= dict_get(self.CHOKE_MIN, msg[2])
  /\ msg[3] <= dict_get(self.CHOKE_MAX, msg[2])
  /\ msg[2] \in DOMAIN self.CHOKE
  /\ self.last[2] \in self.CHOKE[msg[2]]

\* msg is a note-on of a chokable note that is no choke indicator
hits_cymbal(self, msg) ==
  sounding(msg) /\ msg[2] \in self.notes /\ ~indicates(self, msg)

\* what a call of process with msg does to a recorded cymbal hit when no
\* timeout fires: a hit of a chokable note replaces or clears it, an
\* indicator counts, and every other message leaves it alone
no_timeout(msg) ==
  IF hits_cymbal(plugin, msg)
  THEN /\ plugin'.choke_cnt = 0
       /\ plugin'.last_choked = FALSE
       /\ plugin'.last = IF msg[3] >= dict_get(plugin.CYMBAL_MIN, msg[2]) THEN msg ELSE <<>>
  ELSE /\ plugin'.last = plugin.last
       /\ plugin'.last_time = plugin.last_time
       /\ IF indicates(plugin, msg)
          THEN /\ plugin'.choke_cnt = plugin.choke_cnt + 1
               /\ res'.seen /= <<>>
               /\ LET c == res'.seen[Len(res'.seen)]
                  IN /\ \A n \in 1..Len(c.yields) : c.yields[n] /= msg
                     /\ (plugin'.choke_cnt >= dict_get(plugin.CHOKE_CNT, msg[2])
                           /\ ~plugin.last_choked) =>
                          /\ is_choke_pair(c.yields)
                          /\ plugin'.last_choked
               /\ plugin.last_choked => plugin'.last_choked
          ELSE /\ plugin'.choke_cnt = plugin.choke_cnt
               /\ plugin'.last_choked = plugin.last_choked

record_start == plugin.name = "replay" /\ ~plugin.recording /\ plugin'.recording

\* the step is a call of process with a note-on of a PLAY note
play_toggled ==
  /\ res'.calls = res.calls + 1
  /\ sounding(res'.seen[1].msg)
  /\ res'.seen[1].msg[2] \in plugin.PLAY

\* C32: when a RECORD note starts a recording, a running play task is
\* cancelled and gone when the cache is cleared: no step empties the cache
\* and leaves a play task behind, a play task sleeps only before an entry
\* the cache holds, only a play task sends, and after the start of the
\* recording a play task exists again only by a call with a PLAY note.
C32_RecordStopsPlayback ==
  [][plugin.name = "replay" =>
       /\ record_start => tasks' = <<>>
       /\ (plugin.cache /= <<>> /\ plugin'.cache = <<>>) => tasks' = <<>>
       /\ (tasks' /= <<>> /\ tasks'[1].pc = "sleep") =>
            tasks'[1].i \in 1..Len(plugin'.cache)
       /\ sent' /= sent => (tasks /= <<>> /\ tasks[1].pc \in {"ready", "sleep"})
       /\ (tasks = <<>> /\ tasks' /= <<>>) => play_toggled]_vars

\* the record note has just started a recording while the play task of
\* the previous recording was running and had sent messages
C32_Witness ==
  /\ plugin.name = "replay"
  /\ res.seen /= <<>>
  /\ LET c == res.seen[1]
     IN /\ sounding(c.msg) /\ c.msg[2] \in plugin.RECORD
        /\ ~c.recording /\ plugin.recording
        /\ c.playing
        /\ c.cache /= <<>>
        /\ plugin.cache = <<>>
        /\ tasks = <<>>
        /\ sent /= <<>>

\* the RECORD note-ons and the note-ons that are neither RECORD nor PLAY
record_note(msg) == sounding(msg) /\ msg[2] \in plugin.RECORD

plain_note(msg) == sounding(msg) /\ msg[2] \notin plugin.RECORD /\ msg[2] \notin plugin.PLAY

\* C33: the call that starts a recording leaves the cache empty; while the
\* recording goes on the cache stays empty until a note-on that is neither
\* a RECORD nor a PLAY note is processed, and that note-on is its first
\* entry with gap 0; every entry appended later has the time since the
\* previous entry as its gap; no entry of the cache is a RECORD note-on.
C33_RecordingBeginsAtNextNote ==
  (plugin.name = "replay" /\ res.seen /= <<>>) =>
    LET c == res.seen[1]
        n == Len(c.cache)
    IN /\ (~c.recording /\ plugin.recording) => plugin.cache = <<>>
       /\ (c.recording /\ plugin.recording /\ c.cache = <<>>) =>
            plugin.cache = IF plain_note(c.msg) THEN << <<c.msg, 0>> >> ELSE <<>>
       /\ (c.recording /\ c.cache /= <<>>) =>
            /\ Len(plugin.cache) \in {n, n + 1}
            /\ SubSeq(plugin.cache, 1, n) = c.cache
            /\ Len(plugin.cache) = n + 1 =>
                 /\ plugin.cache[n + 1][2] = c.t - c.cache_last
                 /\ plugin.cache_last = c.t
       /\ plugin.cache /= <<>> => plugin.cache[1][2] = 0 /\ plugin.cache_last /= 0
       /\ \A k \in 1..Len(plugin.cache) :
            plugin.cache[k][1] /= None => ~record_note(plugin.cache[k][1])

\* the first hit after the record note is the first entry with gap 0 and
\* its note-off was recorded 2 ms later
C33_Witness ==
  /\ plugin.name = "replay"
  /\ plugin.recording
  /\ res.seen /= <<>>
  /\ Len(plugin.cache) = 2
  /\ plugin.cache[1] = << <<144, 38, 90>>, 0 >>
  /\ plugin.cache[2] = << <<128, 38, 0>>, 2 >>
  /\ res.seen[1].msg = <<128, 38, 0>>
  /\ res.seen[1].t > 3

\* ------------------------------------------------------------------------
\* The timing plugin: which clicks are played
\* ------------------------------------------------------------------------
\* number of click note-ons in a run of the click track
MaxClickOns == 3

\* the note-on of the reference click
ClickOns == { <<153, 76, 100>> }

\* the click track runs while hits are handed to process
NextClick ==
  \/ \E msg \in ClickOns : time_read_callback_of(msg, MaxClickOns)
  \/ \E k \in 1..MaxClickOns : time_read_click(k)
  \/ time_call(<<144, 38, 90>>)
  \/ time_tick

SpecClick == InitTime /\ [][NextClick]_vars

\* the click note-ons sent to the click output, with their times
RECURSIVE click_ons(_)
click_ons(l) ==
  IF l = <<>> THEN <<>>
  ELSE IF sounding(Head(l)[1]) /\ Head(l)[1][1] = 153
  THEN <<Head(l)>> \o click_ons(Tail(l))
  ELSE click_ons(Tail(l))

\* of the click note-ons in all, numbered in their order, the plugin has
\* sent the numbers 1, N+1, 2N+1, ... and no other, each DELAY ms after
\* its time, and none is missing that is due; with N = 0 it has sent none
every_nth(all) ==
  LET N == plugin.PLAY_INTERVAL
      emitted == click_ons(sent)
  IN IF N = 0 THEN emitted = <<>>
     ELSE /\ \A n \in 1..Len(emitted) :
               /\ 1 + (n - 1) * N <= Len(all)
               /\ emitted[n] = << all[1 + (n - 1) * N][1],
                                  all[1 + (n - 1) * N][2] + plugin.DELAY >>
          /\ \A j \in 1..Len(all) :
               ((j - 1) % N = 0 /\ all[j][2] + plugin.DELAY < now) =>
                 ((j - 1) \div N) + 1 <= Len(emitted)

\* C34 as stated: of all the click note-ons that arrive, in arrival order,
\* exactly the numbers 1, N+1, 2N+1, ... are re-emitted DELAY ms after
\* their arrival, and none with N = 0.
C34_EveryNthClick ==
  plugin.name = "time" => every_nth(res.dropped \o res.clicks)

\* C34: of the click note-ons that arrive after the first call of process
\* (the earlier ones are dropped by read_callback and are not counted), in
\* arrival order, exactly the numbers 1, N+1, 2N+1, ... are re-emitted
\* DELAY ms after their arrival, and none with N = 0.
C34_EveryNthClickTaken ==
  plugin.name = "time" => every_nth(res.clicks)

\* with PLAY_INTERVAL = 2 the first and the third of three clicks were
\* played, each 2 ms after it came in
C34_Witness ==
  /\ plugin.name = "time"
  /\ plugin.PLAY_INTERVAL = 2
  /\ Len(res.clicks) = 3
  /\ res.clicks[2][2] + plugin.DELAY < now
  /\ click_ons(sent) = << <<res.clicks[1][1], res.clicks[1][2] + 2>>,
                         <<res.clicks[3][1], res.clicks[3][2] + 2>> >>

\* ------------------------------------------------------------------------
\* The replace plugin: the rules in effect
\* ------------------------------------------------------------------------
\* the enabled rules that replace note f
enabled_for(f) ==
  { i \in 1..Len(plugin.config.replace) :
      plugin.config.replace[i].enabled /\ f \in plugin.config.replace[i].from }

\* C35 (as claimed): after any sequence of triggers and commands every
\* enabled rule is in effect: a note f that some enabled rule has in its
\* from set is replaced by the to of an enabled rule that has it, and f is
\* without replacement only if no enabled rule has it.
C35_EnabledRulesInEffect ==
  plugin.name = "replace" =>
    \A f \in ReplaceNotes :
      /\ enabled_for(f) /= {} =>
           \E i \in enabled_for(f) : plugin.replacements[f] = plugin.config.replace[i].to
      /\ plugin.replacements[f] = no_note => enabled_for(f) = {}

\* ------------------------------------------------------------------------
\* MessageHistory: the operations one by one
\* ------------------------------------------------------------------------
\* number of operations applied to the history in one run
MaxOps == 4

\* two hits of note 40 and one of note 38
HistoryMsgs == { <<144, 40, 20>>, <<144, 40, 56>>, <<144, 38, 100>> }

\* the values handed to get_all: None, one bucket, two buckets
HistoryValues == { {}, {40}, {38, 40} }

\* res.seen is the operation just applied to HISTORY: its name, its
\* argument, the history before it and what it returned
InitHistory ==
  /\ idle(defaults)
  /\ now = 0
  /\ plugin = no_plugin
  /\ tasks = <<>>
  /\ sent = <<>>
  /\ res = no_res

\* HISTORY.add(msg)
history_add(msg) ==
  /\ res.calls < MaxOps
  /\ HISTORY' = add(HISTORY, msg)
  /\ res' = [calls |-> res.calls + 1,
             seen |-> <<[op |-> "add", msg |-> msg, before |-> HISTORY]>>]
  /\ UNCHANGED <<ARGS, POLICY, PLUGINS, DISABLED, QUEUE, cache, timers, midiout, pc, cur,
                 wake, arrivals, logged, evald, now, plugin, tasks, sent>>

\* HISTORY.remove(msg)
history_remove(msg) ==
  /\ res.calls < MaxOps
  /\ HISTORY' = remove(HISTORY, msg)
  /\ res' = [calls |-> res.calls + 1,
             seen |-> <<[op |-> "remove", msg |-> msg, before |-> HISTORY]>>]
  /\ UNCHANGED <<ARGS, POLICY, PLUGINS, DISABLED, QUEUE, cache, timers, midiout, pc, cur,
                 wake, arrivals, logged, evald, now, plugin, tasks, sent>>

\* HISTORY.pop_similar(msg)
history_pop_similar(msg) ==
  /\ res.calls < MaxOps
  /\ HISTORY' = pop_similar(HISTORY, msg).history
  /\ res' = [calls |-> res.calls + 1,
             seen |-> <<[op |-> "pop_similar", msg |-> msg, before |-> HISTORY,
                         ret |-> pop_similar(HISTORY, msg).ret]>>]
  /\ UNCHANGED <<ARGS, POLICY, PLUGINS, DISABLED, QUEUE, cache, timers, midiout, pc, cur,
                 wake, arrivals, logged, evald, now, plugin, tasks, sent>>

\* HISTORY.has_similar(msg), list(HISTORY.get_similar(msg)) and the
\* messages of HISTORY.get_all(values)
history_read(msg, values) ==
  /\ res.calls < MaxOps
  /\ res' = [calls |-> res.calls + 1,
             seen |-> <<[op |-> "read", msg |-> msg, before |-> HISTORY, values |-> values,
                         has_similar |-> has_similar(HISTORY, msg),
                         get_similar |-> get_similar(HISTORY, msg),
                         get_all |-> get_all(HISTORY, values)]>>]
  /\ UNCHANGED <<ARGS, POLICY, PLUGINS, HISTORY, DISABLED, QUEUE, cache, timers, midiout, pc,
                 cur, wake, arrivals, logged, evald, now, plugin, tasks, sent>>

NextHistory ==
  \/ \E msg \in HistoryMsgs : history_add(msg)
  \/ \E msg \in HistoryMsgs : history_remove(msg)
  \/ \E msg \in HistoryMsgs : history_pop_similar(msg)
  \/ \E msg \in HistoryMsgs, values \in HistoryValues : history_read(msg, values)

SpecHistory == InitHistory /\ [][NextHistory]_vars

\* the places of msg in the list l
places(l, msg) == { k \in 1..Len(l) : l[k] = msg }

\* h and g differ at most in the bucket of msg
same_elsewhere(h, g, msg) == \A b \in DOMAIN h : b /= msg[2] => g[b] = h[b]

\* C36: add(m) appends m to the bucket m[1] and changes no other bucket;
\* remove(m) deletes the earliest entry equal to m from that bucket and
\* nothing else, and changes nothing when there is none, so that a second
\* remove after a single add changes nothing; pop_similar(m) removes and
\* returns the entry of the bucket that was added last, or returns None and
\* changes nothing when the bucket is empty; has_similar, get_similar and
\* get_all change nothing and tell what the buckets hold.
C36_HistoryOperations ==
  /\ res.seen /= <<>> =>
       LET c == res.seen[1]
           old == c.before[c.msg[2]]
           new == HISTORY[c.msg[2]]
       IN /\ same_elsewhere(c.before, HISTORY, c.msg)
          /\ c.op = "add" => new = old \o <<c.msg>>
          /\ c.op = "remove" =>
               IF places(old, c.msg) = {} THEN new = old
               ELSE LET k == CHOOSE i \in places(old, c.msg) :
                                \A j \in places(old, c.msg) : i <= j
                    IN new = SubSeq(old, 1, k - 1) \o SubSeq(old, k + 1, Len(old))
          /\ c.op = "pop_similar" =>
               IF old = <<>> THEN new = old /\ c.ret = <<>>
               ELSE old = new \o c.ret /\ Len(c.ret) = 1
          /\ c.op = "read" =>
               /\ new = old
               /\ c.has_similar = (old /= <<>>)
               /\ c.get_similar = old
               /\ c.get_all = { m \in HistoryMsgs :
                                  m[2] \in c.values /\ places(c.before[m[2]], m) /= {} }
  /\ \A m \in HistoryMsgs :
       places(HISTORY[m[2]], m) = {} =>
         /\ remove(add(HISTORY, m), m) = HISTORY
         /\ remove(remove(add(HISTORY, m), m), m) = HISTORY

\* of three hits of note 40 the first and the last are equal: remove has
\* taken the first and left the last
C36_Witness ==
  /\ res.seen /= <<>>
  /\ res.seen[1].op = "remove"
  /\ res.seen[1].msg = <<144, 40, 20>>
  /\ res.seen[1].before[40] = << <<144, 40, 20>>, <<144, 40, 56>>, <<144, 40, 20>> >>
  /\ HISTORY[40] = << <<144, 40, 56>>, <<144, 40, 20>> >>

\* ------------------------------------------------------------------------
\* The lag of the dispatcher
\* ------------------------------------------------------------------------
\* the number of arrivals the dispatcher has decided on
dispatched == Len(arrivals) - Len(QUEUE) - (IF pc = "sleep" THEN 1 ELSE 0)

\* C37: with plugins that take no time, every message is dispatched at
\* most delay ms after its arrival: no arrival that is still queued or
\* slept on is older than delay, and the message just dispatched arrived
\* at most delay ms ago.
C37_LagWithinDelay ==
  running =>
    /\ \A k \in 1..Len(arrivals) :
         k > dispatched => now - arrivals[k][2] <= ARGS.delay
    /\ evald.msg /= <<>> =>
         /\ arrivals[dispatched][1] = evald.msg
         /\ now - arrivals[dispatched][2] <= ARGS.delay

\* a message that had to wait in the queue for the dispatcher, and was
\* then slept on, is dispatched exactly delay ms after its arrival
C37_Witness ==
  /\ running
  /\ ARGS.delay > 0
  /\ evald.msg /= <<>>
  /\ dispatched = 3
  /\ LET slept == IF cur[2] < ARGS.delay THEN cur[2] ELSE ARGS.delay
     IN /\ slept > 0
        /\ wake - slept > arrivals[dispatched][2]
        /\ now - arrivals[dispatched][2] = ARGS.delay

\* ------------------------------------------------------------------------
\* The pipeline under fair scheduling
\* ------------------------------------------------------------------------
\* a rule that consumes disable events, the pre-note cache with every
\* disable type, and a plugin that aborts on a note-off
LiveConfigs ==
  { [defaults EXCEPT !.policy = file_disable],
    [defaults EXCEPT !.before = TRUE, !.dtypes = "any"],
    [defaults EXCEPT !.plugins = <<"pass", "abort">>, !.dtypes = "note_off"] }

\* a hit of note 40 and its aftertouch, a note-off and a control change
LiveMsgs == { <<144, 40, 20>>, <<160, 40, 127>>, <<128, 38, 0>>, <<176, 7, 64>> }

InitLive ==
  /\ \E args \in LiveConfigs : idle(args)
  /\ now = 0
  /\ plugin = no_plugin
  /\ tasks = <<>>
  /\ sent = <<>>
  /\ res = no_res

NextLive ==
  \/ \E msg \in LiveMsgs : read_in(msg)
  \/ write_out_get
  \/ write_out_handle
  \/ cleanup_note_on
  \/ cleanup_disabled

\* a step of the event loop that is not an arrival
loop_step == write_out_get \/ write_out_handle \/ cleanup_note_on \/ cleanup_disabled

\* the event loop does not stand still while a task is ready or a callback
\* is due: the dispatcher gets a queued message, its sleep ends, or a
\* scheduled cleanup is called; arrivals may stop at any time
SpecLive == InitLive /\ [][NextLive]_vars /\ WF_vars(loop_step)

\* nothing is queued, slept on or stored
drained ==
  /\ QUEUE = <<>>
  /\ pc = "get"
  /\ \A note \in DOMAIN HISTORY : HISTORY[note] = <<>>
  /\ \A note \in DOMAIN DISABLED : DISABLED[note] = <<>>

\* C38: unless a plugin ends the dispatcher, once the arrivals have
\* stopped every queued message is dispatched and HISTORY and DISABLED
\* become empty and stay empty, also after a message was withheld in the
\* pre-note cache or a disable event was consumed by pop_similar.
C38_CleanupLiveness == <>[](pc \in {"aborted", "crashed"} \/ drained)

\* the aftertouch of note 40 was consumed to block the hit that followed,
\* and everything is dispatched and cleaned up
C38_Witness ==
  /\ ARGS.policy = file_disable
  /\ arrivals /= <<>>
  /\ [k \in 1..Len(arrivals) |-> arrivals[k][1]]
       = << <<160, 40, 127>>, <<144, 40, 20>>, <<160, 40, 127>> >>
  /\ midiout = << <<160, 40, 127>>, <<160, 40, 127>> >>
  /\ timers = <<>>
  /\ drained

\* ------------------------------------------------------------------------
\* Disable events and their cleanups, with a clock
\* ------------------------------------------------------------------------
\* note 40 is blocked after a disable event, which the rule consumes
\* (file_disable) or leaves in place (file_multi); cleanups after 3 ms
ConsumeConfigs ==
  { [defaults EXCEPT !.policy = file_disable, !.delay = 1, !.history = 3],
    [defaults EXCEPT !.policy = file_multi, !.delay = 1, !.history = 3] }

\* a hit of note 40 and its aftertouch
ConsumeMsgs == { <<144, 40, 20>>, <<160, 40, 127>> }

InitConsume ==
  /\ \E args \in ConsumeConfigs : idle(args)
  /\ now = 0
  /\ plugin = no_plugin
  /\ tasks = <<>>
  /\ sent = <<>>
  /\ res = no_res

NextConsume ==
  \/ \E msg \in ConsumeMsgs : read_in(msg)
  \/ write_out_get
  \/ sleep_over
  \/ note_on_due
  \/ disabled_due
  \/ tick

SpecConsume == InitConsume /\ [][NextConsume]_vars

\* the last arrival is a disable event that came when every earlier
\* arrival had been dispatched, so that no call of blocks can have consumed
\* it, and its own cleanup, history ms after its dispatch, is not due yet
last_unconsumed ==
  /\ running
  /\ arrivals /= <<>>
  /\ LET k == Len(arrivals)
     IN /\ disable_event(arrivals[k][1])
        /\ \A j \in 1..(k - 1) : arrivals[j][2] + ARGS.delay < arrivals[k][2]
        /\ now < arrivals[k][2] + ARGS.history

\* C39 (as claimed): a disable event that was not consumed stays in
\* DISABLED until its own cleanup fires; the cleanup of an earlier, equal
\* disable event that was consumed does not remove it.
C39_OwnCleanupOnly ==
  last_unconsumed =>
    occurrences(DISABLED[arrivals[Len(arrivals)][1][2]], arrivals[Len(arrivals)][1]) >= 1

\* ------------------------------------------------------------------------
\* The dispatcher without plugins and without the pre-note cache
\* ------------------------------------------------------------------------
DirectConfigs ==
  { defaults,
    [defaults EXCEPT !.dtypes = "any"],
    [defaults EXCEPT !.policy = file_disable],
    [defaults EXCEPT !.policy = file_minimum] }

DirectMsgs == { <<144, 38, 100>>, <<144, 40, 20>>, <<160, 40, 127>>, <<176, 7, 64>> }

InitDirect ==
  /\ \E args \in DirectConfigs : idle(args)
  /\ now = 0
  /\ plugin = no_plugin
  /\ tasks = <<>>
  /\ sent = <<>>
  /\ res = no_res

NextDirect ==
  \/ \E msg \in DirectMsgs : read_in(msg)
  \/ write_out_get
  \/ write_out_handle
  \/ cleanup_note_on
  \/ cleanup_disabled

SpecDirect == InitDirect /\ [][NextDirect]_vars

\* the step handled one more arrival
handles_next == handled' = handled + 1

\* the step handled a sounding note-on that the policy blocked
blocked_note_on ==
  /\ handles_next
  /\ sounding(arrivals[handled + 1][1])
  /\ evald'.called
  /\ evald'.bpolicy.policy /= 0

\* C40: with no plugins loaded and before clear, the written sequence is
\* the sequence of the handled arrivals with exactly the blocked note-ons
\* removed: every step that handles an arrival appends that message,
\* unchanged and once, unless it is a note-on the policy blocked, which
\* appends nothing; no other step writes; the pre-note cache stays empty.
C40_DirectOutput ==
  [][ (PLUGINS = <<>> /\ ~ARGS.before) =>
        /\ cache = <<>>
        /\ cache' = <<>>
        /\ Len(midiout) <= handled
        /\ midiout' = IF handles_next /\ ~blocked_note_on
                      THEN Append(midiout, arrivals[handled + 1][1])
                      ELSE midiout ]_vars

\* an aftertouch, the note-on it blocked and a control change were handled:
\* the first and the third were written
C40_Witness ==
  /\ PLUGINS = <<>>
  /\ ~ARGS.before
  /\ handled = 3
  /\ kind(arrivals[1][1]) = MIDI_AFTERTOUCH
  /\ sounding(arrivals[2][1])
  /\ other(arrivals[3][1])
  /\ midiout = << arrivals[1][1], arrivals[3][1] >>
  /\ cache = <<>>

====
